---------------------------- MODULE Spec2Model ----------------------------
(***************************************************************************)
(* Additive synthesizer: harmonic series, spectral filter, waveform         *)
(* analyzer, voices with their ADSR envelope, the synth engine and the      *)
(* plugin's processBlock.                                                   *)
(*                                                                          *)
(* Numbers.  The code computes in float; the model computes in integers:    *)
(*   frequencies and sample rates   Hz                                      *)
(*   amplitudes, gains, envelope bands   units of 1/kOne                    *)
(*   oscillator ratio, waveform mix, stereo width   percent                 *)
(*   phases   degrees in the parameter snapshot, 1/10000 rad in the core    *)
(*   stretch   hundredths (50 .. 200 for 0.5 .. 2.0)                        *)
(*   ADSR times   milliseconds                                              *)
(*   envelope value   steps of 1/kEnvOne, every update rounded to the       *)
(*                    nearest step as a float update is rounded to the      *)
(*                    nearest representable value                           *)
(* Harmonic number n of the model is index n-1 of the code's arrays.        *)
(***************************************************************************)
EXTENDS Integers, Sequences, FiniteSets, TLC

\* ------------------------------------------------------------------------
\* Program constants
\* ------------------------------------------------------------------------

kMaxHarmonics == 256

kMaxUnisonVoices == 8

kMaxPolyphony == 8

\* fixed-point one for amplitudes and gains (1.0f): a scale of the model
kOne == 10 * 1000

\* 2*pi in units of 1/10000 rad (SineLUT::kTwoPi)
kTwoPi == 62832

\* ------------------------------------------------------------------------
\* Arithmetic helpers
\* ------------------------------------------------------------------------

Max(a, b) == IF a >= b THEN a ELSE b

Min(a, b) == IF a <= b THEN a ELSE b

Abs(a) == IF a < 0 THEN -a ELSE a

\* juce::jlimit(lo, hi, v)
jlimit(lo, hi, v) == IF v < lo THEN lo ELSE IF hi < v THEN hi ELSE v

RECURSIVE IsqrtBetween(_, _, _)
IsqrtBetween(x, lo, hi) ==
    IF lo >= hi THEN lo
    ELSE LET mid == (lo + hi + 1) \div 2
         IN  IF mid * mid <= x THEN IsqrtBetween(x, mid, hi)
             ELSE IsqrtBetween(x, lo, mid - 1)

\* floor of the square root of x, 0 <= x < 2^31
Isqrt(x) == IsqrtBetween(x, 0, 46340)

\* product of an amplitude and a gain: it keeps the sign a float product
\* has, and a product of two non-zero normal numbers stays non-zero, the
\* smallest unit standing for every smaller magnitude
FMul(a, g) ==
    IF a = 0 \/ g = 0 THEN 0
    ELSE IF (a > 0) = (g > 0) THEN Max(1, (Abs(a) * Abs(g)) \div kOne)
    ELSE 0 - Max(1, (Abs(a) * Abs(g)) \div kOne)

\* ------------------------------------------------------------------------
\* HarmonicSeries
\* ------------------------------------------------------------------------

Harmonics == 1..kMaxHarmonics

\* HarmonicData{}: value-initialised arrays, activeCount = 0
EmptyHarmonicData ==
    [amplitudes  |-> [n \in Harmonics |-> 0],
     phases      |-> [n \in Harmonics |-> 0],
     activeCount |-> 0]

\* the loop's break with > in place of >=
AboveNyquistOnly(freq, sampleRate) == 2 * freq > sampleRate

\* freq >= nyquist, with nyquist = sampleRate * 0.5
AtOrAboveNyquist(freq, sampleRate) == 2 * freq >= sampleRate

\* the blend with the weights of sawtooth and square exchanged
HarmonicAmplitudeSwapped(ratio, n) ==
    LET sawAmp == kOne \div n
        sqrAmp == IF n % 2 = 1 THEN kOne \div n ELSE 0
    IN  ((100 - ratio) * sawAmp + ratio * sqrAmp) \div 100

\* data.amplitudes[n - 1] = ratio * sawAmp + (1 - ratio) * sqrAmp, ratio in
\* percent
HarmonicAmplitude(ratio, n) ==
    LET sawAmp == kOne \div n
        sqrAmp == IF n % 2 = 1 THEN kOne \div n ELSE 0
    IN  (ratio * sawAmp + (100 - ratio) * sqrAmp) \div 100

HarmonicPhase(ratio, sawPhase, sqrPhase, n) ==
    LET sawAmp     == kOne \div n
        sqrAmp     == IF n % 2 = 1 THEN kOne \div n ELSE 0
        sawContrib == (ratio * sawAmp) \div 100
        sqrContrib == ((100 - ratio) * sqrAmp) \div 100
        total      == sawContrib + sqrContrib
        phase ==
            IF ratio > 0 /\ ratio < 100 /\ HarmonicAmplitude(ratio, n) > 0
            THEN IF total > 0
                 THEN (sawContrib * sawPhase + sqrContrib * sqrPhase) \div total
                 ELSE 0
            ELSE IF ratio >= 100 THEN sawPhase
            ELSE IF n % 2 = 1 THEN sqrPhase ELSE 0
    IN  phase * n

\* the n at which the loop of compute stops: the first n with
\* freq >= nyquist (break), or kMaxHarmonics + 1 when the loop runs out
computeLoopEnd(noteFreqHz, sampleRate) ==
    CHOOSE n \in 1..(kMaxHarmonics + 1) :
        /\ n = kMaxHarmonics + 1 \/ AtOrAboveNyquist(noteFreqHz * n, sampleRate)
        /\ \A m \in 1..(n - 1) : ~AtOrAboveNyquist(noteFreqHz * m, sampleRate)

\* HarmonicSeries::compute
compute(ratio, sawPhase, sqrPhase, noteFreqHz, sampleRate) ==
    LET end == computeLoopEnd(noteFreqHz, sampleRate)
    IN  [amplitudes  |-> [n \in Harmonics |->
                            IF n < end THEN HarmonicAmplitude(ratio, n) ELSE 0],
         phases      |-> [n \in Harmonics |->
                            IF n < end THEN HarmonicPhase(ratio, sawPhase, sqrPhase, n)
                            ELSE 0],
         activeCount |-> end - 1]

\* ------------------------------------------------------------------------
\* SpectralFilter
\* ------------------------------------------------------------------------

\* std::pow(static_cast<float>(n), stretch) in tenths, stretch in hundredths
\* (multiples of 50, which make n^stretch a power of sqrt(n))
StretchedN10(n, stretch) ==
    CASE stretch = 50  -> Isqrt(100 * n)
      [] stretch = 100 -> 10 * n
      [] stretch = 150 -> Isqrt(100 * n * n * n)
      [] stretch = 200 -> 10 * n * n

\* noteFreqHz * stretchedN, in tenths of Hz
StretchedFreq10(noteFreqHz, n, stretch) == noteFreqHz * StretchedN10(n, stretch)

\* the Nyquist test of apply with > in place of >=
StretchedAboveNyquistOnly(noteFreqHz, n, stretch, sampleRate) ==
    2 * StretchedFreq10(noteFreqHz, n, stretch) > 10 * sampleRate

\* stretchedFreq >= nyquist
StretchedAtOrAboveNyquist(noteFreqHz, n, stretch, sampleRate) ==
    2 * StretchedFreq10(noteFreqHz, n, stretch) >= 10 * sampleRate

\* std::pow(10.0f, boostDb / 20.0f) for the boost settings of the model
BoostLinear(boostDb) ==
    CASE boostDb = 0  -> 10000
      [] boostDb = 6  -> 19953
      [] boostDb = 12 -> 39811
      [] boostDb = 24 -> 158489

\* a sigmoid that stays just below 1 however far below the cutoff
SigmoidGainNeverOne(d) ==
    IF d >= 178 THEN 0 ELSE IF d < -20 THEN kOne - 1 ELSE kOne \div 2

\* 1 / (1 + exp((n - cutoff) / smoothness)), smoothness = 2, d = n - cutoff.
\* Far below the cutoff the float quotient is exactly 1; far above it exp
\* overflows and the quotient is exactly 0; in between it is positive.
SigmoidGain(d) ==
    IF d <= -34 THEN kOne
    ELSE IF d >= 178 THEN 0
    ELSE IF d < -20 THEN kOne - 1
    ELSE IF d > 19 THEN 1
    ELSE << 10000, 9999, 9999, 9998, 9997, 9994, 9991, 9985, 9975, 9959,
            9933, 9890, 9820, 9707, 9526, 9241, 8808, 8176, 7311, 6225,
            5000, 3775, 2689, 1824, 1192, 759, 474, 293, 180, 110,
            67, 41, 25, 15, 9, 6, 3, 2, 1, 1 >>[d + 21]

\* exp(-0.5 * dist^2 / bellWidth^2), bellWidth = 3
BellShape(d) ==
    IF Abs(d) > 13 THEN 0
    ELSE << 10000, 9460, 8007, 6065, 4111, 2494, 1353, 657, 286, 111,
            39, 12, 3, 1 >>[Abs(d) + 1]

\* 1 + (boostLinear - 1) * bell
BellGain(boostDb, d) ==
    kOne + ((BoostLinear(boostDb) - kOne) * BellShape(d)) \div kOne

\* sigmoidGain * bellGain
FilterGain(cutoff, boostDb, n) ==
    (SigmoidGain(n - cutoff) * BellGain(boostDb, n - cutoff)) \div kOne

\* the harmonics of the loop of apply that pass the Nyquist test
applyKept(count, stretch, noteFreqHz, sampleRate) ==
    {n \in 1..count : ~StretchedAtOrAboveNyquist(noteFreqHz, n, stretch, sampleRate)}

\* newActive after the loop: the last n that was not skipped by continue
applyNewActive(kept) ==
    IF kept = {} THEN 0 ELSE CHOOSE n \in kept : \A m \in kept : m <= n

\* an apply whose skipped harmonics keep their amplitude
applyNotZeroing(data, cutoff, boostDb, phaseRot, stretch, noteFreqHz, sampleRate) ==
    LET kept == applyKept(data.activeCount, stretch, noteFreqHz, sampleRate)
    IN  [amplitudes  |-> [n \in Harmonics |->
                            IF n \notin kept THEN data.amplitudes[n]
                            ELSE FMul(data.amplitudes[n], FilterGain(cutoff, boostDb, n))],
         phases      |-> [n \in Harmonics |->
                            IF n \in kept THEN data.phases[n] + phaseRot * n
                            ELSE data.phases[n]],
         activeCount |-> applyNewActive(kept)]

\* SpectralFilter::apply
apply(data, cutoff, boostDb, phaseRot, stretch, noteFreqHz, sampleRate) ==
    LET kept == applyKept(data.activeCount, stretch, noteFreqHz, sampleRate)
    IN  [amplitudes  |-> [n \in Harmonics |->
                            IF n > data.activeCount THEN data.amplitudes[n]
                            ELSE IF n \notin kept THEN 0
                            ELSE FMul(data.amplitudes[n], FilterGain(cutoff, boostDb, n))],
         phases      |-> [n \in Harmonics |->
                            IF n \in kept THEN data.phases[n] + phaseRot * n
                            ELSE data.phases[n]],
         activeCount |-> applyNewActive(kept)]

\* a waveform filter with the weights of dry and filtered exchanged
applyWaveformFilterDryWet(data, spectralEnvelope, mix) ==
    IF mix <= 0 THEN data
    ELSE [data EXCEPT !.amplitudes =
            [n \in Harmonics |->
                IF n <= data.activeCount
                THEN LET filtered == (data.amplitudes[n] * spectralEnvelope[n]) \div kOne
                     IN  (data.amplitudes[n] * mix + filtered * (100 - mix)) \div 100
                ELSE data.amplitudes[n]]]

\* a waveform filter that takes the dry signal away twice
applyWaveformFilterOverDry(data, spectralEnvelope, mix) ==
    IF mix <= 0 THEN data
    ELSE [data EXCEPT !.amplitudes =
            [n \in Harmonics |->
                IF n <= data.activeCount
                THEN LET filtered == (data.amplitudes[n] * spectralEnvelope[n]) \div kOne
                     IN  (data.amplitudes[n] * (100 - 2 * mix) + filtered * mix) \div 100
                ELSE data.amplitudes[n]]]

\* SpectralFilter::applyWaveformFilter, mix in percent
applyWaveformFilter(data, spectralEnvelope, mix) ==
    IF mix <= 0 THEN data
    ELSE [data EXCEPT !.amplitudes =
            [n \in Harmonics |->
                IF n <= data.activeCount
                THEN LET filtered == (data.amplitudes[n] * spectralEnvelope[n]) \div kOne
                     IN  (data.amplitudes[n] * (100 - mix) + filtered * mix) \div 100
                ELSE data.amplitudes[n]]]

\* juce::MidiMessage::getMidiNoteInHertz for the A notes, whose frequency
\* 440 * 2^((note - 69) / 12) is a whole number of Hz
MidiNoteInHertz(note) ==
    CASE note = 33  -> 55
      [] note = 45  -> 110
      [] note = 57  -> 220
      [] note = 69  -> 440
      [] note = 81  -> 880
      [] note = 93  -> 1760
      [] note = 105 -> 3520
      [] note = 117 -> 7040

\* ------------------------------------------------------------------------
\* juce::ADSR, the envelope generator each voice owns
\* ------------------------------------------------------------------------

\* unit of the envelope value: 1.0f is kEnvOne units of 2^-30
kEnvOne == 2 ^ 30

\* significant binary digits of a float
kFloatDigits == 24

\* a sustain level given in percent, in envelope units
SustainLevel(pct) == IF pct >= 100 THEN kEnvOne ELSE pct * (kEnvOne \div 100)

\* getRate(distance, timeInSeconds, sr): distance / (time * sr) per sample,
\* kept as the fraction num/den (envelope units over samples); -1 when
\* time <= 0
getRate(distance, timeMs, sr) ==
    IF timeMs > 0 THEN [num |-> distance, den |-> Max(1, (timeMs * sr) \div 1000)]
    ELSE [num |-> -1, den |-> 1]

\* rate > 0.0f
RatePositive(rate) == rate.num > 0

\* the spacing of the floats around v envelope units: one unit below
\* 2^kFloatDigits units, doubling with every doubling of v above that
RECURSIVE Ulp(_)
Ulp(v) == IF v < 2 ^ kFloatDigits THEN 1 ELSE 2 * Ulp(v \div 2)

\* what adding or subtracting the rate changes a float of spacing u by: the
\* result is rounded to the nearest float, so a rate below half the spacing
\* leaves the value where it is
Step(rate, u) ==
    IF rate.num > 0 THEN u * ((rate.num + (rate.den * u) \div 2) \div (rate.den * u))
    ELSE 0

\* the spacing of the floats just below v, which a subtraction from v
\* rounds to
UlpBelow(v) == Ulp(v - 1)

\* the least value with the spacing of the floats just below v
BinadeFloor(v) ==
    IF v - 1 < 2 ^ kFloatDigits THEN 0 ELSE UlpBelow(v) * 2 ^ (kFloatDigits - 1)

\* the least value above v where the spacing of the floats doubles
BinadeTop(v) ==
    IF v < 2 ^ kFloatDigits THEN 2 ^ kFloatDigits ELSE Ulp(v) * 2 ^ kFloatDigits

\* envelopeVal += rate
AddRate(envelopeVal, rate) == envelopeVal + Step(rate, Ulp(envelopeVal))

\* envelopeVal -= rate; any negative result is kept as -1
SubRate(envelopeVal, rate) ==
    IF envelopeVal <= 0 THEN (IF rate.num > 0 THEN -1 ELSE 0)
    ELSE Max(-1, envelopeVal - Step(rate, UlpBelow(envelopeVal)))

\* ADSR::reset
adsrReset(a) == [a EXCEPT !.envelopeVal = 0, !.state = "idle"]

\* ADSR::goToNextState
goToNextState(a) ==
    CASE a.state = "attack" ->
            [a EXCEPT !.state = IF RatePositive(a.decayRate) THEN "decay" ELSE "sustain"]
      [] a.state = "decay" -> [a EXCEPT !.state = "sustain"]
      [] a.state = "release" -> adsrReset(a)
      [] OTHER -> a

\* ADSR::recalculateRates
recalculateRates(a) ==
    LET b == [a EXCEPT
                !.attackRate  = getRate(kEnvOne, a.parameters.attack, a.sampleRate),
                !.decayRate   = getRate(kEnvOne - a.parameters.sustain,
                                        a.parameters.decay, a.sampleRate),
                !.releaseRate = getRate(a.parameters.sustain,
                                        a.parameters.release, a.sampleRate)]
    IN  IF \/ b.state = "attack" /\ ~RatePositive(b.attackRate)
           \/ b.state = "decay" /\ (~RatePositive(b.decayRate)
                                     \/ b.envelopeVal <= b.parameters.sustain)
           \/ b.state = "release" /\ ~RatePositive(b.releaseRate)
        THEN goToNextState(b)
        ELSE b

\* ADSR::setParameters
setParameters(a, newParameters) ==
    recalculateRates([a EXCEPT !.parameters = newParameters])

\* ADSR::setSampleRate
setSampleRate(a, sr) == [a EXCEPT !.sampleRate = sr]

\* ADSR::noteOn
adsrNoteOn(a) ==
    IF RatePositive(a.attackRate) THEN [a EXCEPT !.state = "attack"]
    ELSE IF RatePositive(a.decayRate)
    THEN [a EXCEPT !.envelopeVal = kEnvOne, !.state = "decay"]
    ELSE [a EXCEPT !.envelopeVal = a.parameters.sustain, !.state = "sustain"]

\* ADSR::noteOff
adsrNoteOff(a) ==
    IF a.state = "idle" THEN a
    ELSE IF a.parameters.release > 0
    THEN [a EXCEPT !.releaseRate = getRate(a.envelopeVal, a.parameters.release,
                                           a.sampleRate),
                   !.state = "release"]
    ELSE adsrReset(a)

\* ADSR::isActive
adsrIsActive(a) == a.state # "idle"

\* ADSR::getNextSample: the generator after the call; the value returned is
\* 0 when it was idle and its envelopeVal otherwise
getNextSample(a) ==
    CASE a.state = "idle" -> a
      [] a.state = "attack" ->
            LET v == AddRate(a.envelopeVal, a.attackRate)
            IN  IF v >= kEnvOne THEN goToNextState([a EXCEPT !.envelopeVal = kEnvOne])
                ELSE [a EXCEPT !.envelopeVal = v]
      [] a.state = "decay" ->
            LET v == SubRate(a.envelopeVal, a.decayRate)
            IN  IF v <= a.parameters.sustain
                THEN goToNextState([a EXCEPT !.envelopeVal = a.parameters.sustain])
                ELSE [a EXCEPT !.envelopeVal = v]
      [] a.state = "sustain" -> [a EXCEPT !.envelopeVal = a.parameters.sustain]
      [] a.state = "release" ->
            LET v == SubRate(a.envelopeVal, a.releaseRate)
            IN  IF v <= 0 THEN goToNextState([a EXCEPT !.envelopeVal = v])
                ELSE [a EXCEPT !.envelopeVal = v]

\* a default-constructed ADSR: Parameters{0.1, 0.1, 1.0, 0.1}, 44100 Hz
NewADSR ==
    recalculateRates(
        [state |-> "idle", envelopeVal |-> 0, sampleRate |-> 44100,
         parameters  |-> [attack |-> 100, decay |-> 100, sustain |-> kEnvOne,
                          release |-> 100],
         attackRate  |-> [num |-> -1, den |-> 1],
         decayRate   |-> [num |-> -1, den |-> 1],
         releaseRate |-> [num |-> -1, den |-> 1]])

\* ------------------------------------------------------------------------
\* AdditiveVoice
\* ------------------------------------------------------------------------

\* AdditiveVoiceParams with its member initialisers
DefaultVoiceParams ==
    [oscRatio |-> 50, sawPhase |-> 0, sqrPhase |-> 0,
     filterCutoff |-> 128, filterBoost |-> 0, filterPhase |-> 0,
     filterStretch |-> 100,
     waveFilterEnabled |-> FALSE, waveFilterMix |-> 0,
     waveFilterSpectrum |-> [n \in Harmonics |-> 0],
     unisonCount |-> 1, unisonDetune |-> 10, stereoWidth |-> 50,
     envAttack |-> 10, envDecay |-> 100, envSustain |-> 80, envRelease |-> 300]

\* an AdditiveVoice after construction; currentlyPlayingNote = -1 is
\* SynthesiserVoice's "no note"
NewVoice ==
    [currentlyPlayingNote |-> -1, noteFrequency |-> 440, noteVelocity |-> 0,
     currentSampleRate |-> 44100,
     adsr |-> NewADSR, harmonicData |-> EmptyHarmonicData]

\* SynthesiserVoice::isVoiceActive
isVoiceActive(voice) == voice.currentlyPlayingNote >= 0

\* SynthesiserVoice::clearCurrentNote
clearCurrentNote(voice) == [voice EXCEPT !.currentlyPlayingNote = -1]

\* a rebuild that filters the data the voice already holds
rebuildHarmonicsInPlace(voice, params) ==
    [voice EXCEPT !.harmonicData =
        apply(voice.harmonicData, params.filterCutoff, params.filterBoost,
              params.filterPhase, params.filterStretch,
              voice.noteFrequency, voice.currentSampleRate)]

\* AdditiveVoice::rebuildHarmonics
rebuildHarmonics(voice, params) ==
    LET series   == compute(params.oscRatio, params.sawPhase, params.sqrPhase,
                            voice.noteFrequency, voice.currentSampleRate)
        filtered == apply(series, params.filterCutoff, params.filterBoost,
                          params.filterPhase, params.filterStretch,
                          voice.noteFrequency, voice.currentSampleRate)
    IN  [voice EXCEPT !.harmonicData =
            IF params.waveFilterEnabled /\ params.waveFilterMix > 0
            THEN applyWaveformFilter(filtered, params.waveFilterSpectrum,
                                     params.waveFilterMix)
            ELSE filtered]

\* AdditiveVoice::updateADSR
updateADSR(voice, params) ==
    [voice EXCEPT !.adsr = setParameters(@,
        [attack |-> params.envAttack, decay |-> params.envDecay,
         sustain |-> SustainLevel(params.envSustain),
         release |-> params.envRelease])]

\* AdditiveVoice::startNote, after Synthesiser::startVoice has set the
\* voice's current note
startNote(voice, midiNoteNumber, velocity, params) ==
    LET v1 == [voice EXCEPT !.currentlyPlayingNote = midiNoteNumber,
                            !.noteVelocity = velocity,
                            !.noteFrequency = MidiNoteInHertz(midiNoteNumber)]
        v2 == updateADSR(v1, params)
        v3 == [v2 EXCEPT !.adsr = adsrNoteOn(@)]
    IN  rebuildHarmonics(v3, params)

\* a stopNote that frees the voice with or without tail-off
stopNoteAlwaysFrees(voice, allowTailOff) ==
    clearCurrentNote([voice EXCEPT !.adsr = IF allowTailOff THEN adsrNoteOff(@) ELSE adsrReset(@)])

\* a stopNote that takes the velocity it is given, the release velocity 0
stopNoteTakingVelocity(voice, allowTailOff) ==
    IF allowTailOff THEN [voice EXCEPT !.adsr = adsrNoteOff(@), !.noteVelocity = 0]
    ELSE clearCurrentNote([voice EXCEPT !.adsr = adsrReset(@), !.noteVelocity = 0])

\* AdditiveVoice::stopNote
stopNote(voice, allowTailOff) ==
    IF allowTailOff THEN [voice EXCEPT !.adsr = adsrNoteOff(@)]
    ELSE clearCurrentNote([voice EXCEPT !.adsr = adsrReset(@)])

\* AdditiveVoice::prepareToPlay
voicePrepareToPlay(voice, sampleRate) ==
    [voice EXCEPT !.adsr = setSampleRate(@, sampleRate),
                  !.currentSampleRate = sampleRate]

\* a sub-voice count clamped from below only
UniCountAtLeastOne(params) == Max(1, params.unisonCount)

\* uniCount = jlimit(1, kMaxUnisonVoices, params.unisonCount)
UniCount(params) == jlimit(1, kMaxUnisonVoices, params.unisonCount)

\* spread = u / (uniCount - 1) * 2 - 1, as the fraction num/den
Spread(u, uniCount) == [num |-> 2 * u - (uniCount - 1), den |-> uniCount - 1]

\* detuneOffsetCents of sub-voice u, as the fraction num/den of a cent
DetuneOffsetCents(u, params) ==
    IF UniCount(params) > 1
    THEN [num |-> params.unisonDetune * Spread(u, UniCount(params)).num,
          den |-> Spread(u, UniCount(params)).den]
    ELSE [num |-> 0, den |-> 1]

\* std::pow(2.0f, cents / 1200.0f) in thousandths, by the series
\* 1 + x ln2 + (x ln2)^2 / 2 with x = cents / 1200, exact to a thousandth
\* for |cents| <= 100
Pow2Cents(cents) ==
    LET ppm == 1000000 + (577623 * cents.num) \div (1000 * cents.den)
                 + (16682 * ((cents.num * cents.num) \div (cents.den * cents.den)))
                       \div 100000
    IN  (ppm + 500) \div 1000

\* freqMul[u]
FreqMul(u, params) == Pow2Cents(DetuneOffsetCents(u, params))

\* freq = noteFrequency * freqMul[u] * stretchedN of the phase advance, in
\* tenths of Hz, for harmonic number n (index n - 1)
RenderFreq10(voice, u, n, params) ==
    (StretchedFreq10(voice.noteFrequency, n, params.filterStretch)
        * FreqMul(u, params)) \div 1000

\* the (sub-voice, harmonic) pairs the sample loop sums and advances:
\* u < uniCount, index < activeHarmonics, amplitude > 0
RenderedPartials(voice, params) ==
    {p \in (0..(UniCount(params) - 1)) \X (1..voice.harmonicData.activeCount) :
        voice.harmonicData.amplitudes[p[2]] > 0}

\* a pan position hard left for every sub-voice
PanPosLeft(u, params) == 0

\* a pan position spread by the whole width to either side
PanPosFullSpread(u, params) ==
    IF UniCount(params) > 1
    THEN jlimit(0, kOne, kOne \div 2
                  + (params.stereoWidth * 100 * Spread(u, UniCount(params)).num)
                        \div Spread(u, UniCount(params)).den)
    ELSE kOne \div 2

\* panPos of sub-voice u in units of 1/kOne: 0.5 for one sub-voice, else
\* jlimit(0, 1, 0.5 + stereoWidth * spread * 0.5), stereoWidth in percent
PanPos(u, params) ==
    IF UniCount(params) > 1
    THEN jlimit(0, kOne, kOne \div 2
                  + (params.stereoWidth * 50 * Spread(u, UniCount(params)).num)
                        \div Spread(u, UniCount(params)).den)
    ELSE kOne \div 2

\* std::sin(x * halfPi) for x in [0, 1], by Bhaskara's rational
\* approximation 4t / (5 - t) with t = x (2 - x)
SinHalfPi(x) ==
    LET t == (x * (2 * kOne - x)) \div kOne
    IN  (4 * kOne * t) \div (5 * kOne - t)

\* std::cos(x * halfPi) = sin((1 - x) * halfPi); at x = 0.5 the two floats
\* are the same number
CosHalfPi(x) == SinHalfPi(kOne - x)

\* gainPerUni = 1 / sqrt(uniCount)
GainPerUni(params) == Isqrt((kOne * kOne) \div UniCount(params))

\* what renderNextBlock prepares before its sample loop: uniCount,
\* gainPerUni and the entries of freqMul, panL and panR it writes (with
\* the cents offsets and pan positions they come from), indexed by u
unisonSetup(params) ==
    LET written == 0..(UniCount(params) - 1)
    IN  [uniCount   |-> UniCount(params),
         gainPerUni |-> GainPerUni(params),
         cents      |-> [u \in written |-> DetuneOffsetCents(u, params)],
         freqMul    |-> [u \in written |-> FreqMul(u, params)],
         panPos     |-> [u \in written |-> PanPos(u, params)],
         panL       |-> [u \in written |-> CosHalfPi(PanPos(u, params))],
         panR       |-> [u \in written |-> SinHalfPi(PanPos(u, params))]]

RECURSIVE SumOver(_, _)
\* the sum of f over its domain 0..(count - 1), count given
SumOver(f, count) == IF count <= 0 THEN 0 ELSE f[count - 1] + SumOver(f, count - 1)

\* leftOut and rightOut of one sample before envelope and velocity: the sum
\* over the sub-voices of uniOutput * pan * gainPerUni
sampleOut(uniOutput, setup) ==
    [left  |-> SumOver([u \in DOMAIN setup.panL |->
                          (((uniOutput[u] * setup.panL[u]) \div kOne) * setup.gainPerUni)
                              \div kOne], setup.uniCount),
     right |-> SumOver([u \in DOMAIN setup.panR |->
                          (((uniOutput[u] * setup.panR[u]) \div kOne) * setup.gainPerUni)
                              \div kOne], setup.uniCount)]

\* SineLUT::kTwoPi * freq * invSampleRate, the phase advance of one sample,
\* for a frequency in tenths of Hz
PhaseAdvance(freq10, sampleRate) == (kTwoPi * (freq10 \div 10)) \div sampleRate

\* a phase accumulator that is never wrapped
wrapPhaseNever(phase) == phase

\* if (uniPhaseAccumulators[u][n] >= kTwoPi) uniPhaseAccumulators[u][n] -= kTwoPi
wrapPhase(phase) == IF phase >= kTwoPi THEN phase - kTwoPi ELSE phase

\* one turn of the harmonic loop on uniPhaseAccumulators[u][n - 1]: nothing
\* when the amplitude is not positive (continue), otherwise advance and wrap
advancePhase(phase, voice, u, n, params) ==
    IF voice.harmonicData.amplitudes[n] <= 0 THEN phase
    ELSE wrapPhase(phase + PhaseAdvance(RenderFreq10(voice, u, n, params),
                                        voice.currentSampleRate))

CeilDiv(a, b) == (a + b - 1) \div b

\* the sample loop of renderNextBlock as far as the envelope decides it:
\* left samples to go, added samples written so far.  Each sample calls
\* getNextSample, then leaves the loop without writing when the generator
\* is no longer active, and writes otherwise.  Samples over which the
\* generator's state and the spacing of the floats around its value do not
\* change are taken k at a time: k steps of the same size.
RECURSIVE renderLoop(_, _, _)
renderLoop(a, left, added) ==
    LET v == a.envelopeVal
    IN  IF left = 0 THEN [adsr |-> a, added |-> added, cleared |-> FALSE]
        ELSE CASE a.state = "idle" ->
                    [adsr |-> a, added |-> added, cleared |-> TRUE]
               [] a.state = "sustain" ->
                    [adsr |-> [a EXCEPT !.envelopeVal = a.parameters.sustain],
                     added |-> added + left, cleared |-> FALSE]
               [] a.state = "attack" ->
                    LET s  == Step(a.attackRate, Ulp(v))
                        k  == Min(left, CeilDiv(Min(kEnvOne, BinadeTop(v)) - v, s))
                        v2 == v + k * s
                    IN  IF v >= kEnvOne
                        THEN renderLoop(goToNextState([a EXCEPT !.envelopeVal = kEnvOne]),
                                        left - 1, added + 1)
                        ELSE IF s = 0
                        THEN [adsr |-> a, added |-> added + left, cleared |-> FALSE]
                        ELSE IF v2 >= kEnvOne
                        THEN renderLoop(goToNextState([a EXCEPT !.envelopeVal = kEnvOne]),
                                        left - k, added + k)
                        ELSE renderLoop([a EXCEPT !.envelopeVal = v2], left - k, added + k)
               [] a.state = "decay" ->
                    LET s    == Step(a.decayRate, UlpBelow(v))
                        kSus == CeilDiv(v - a.parameters.sustain, s)
                        k    == Min(left, Min(kSus, CeilDiv(v - BinadeFloor(v), s)))
                    IN  IF v <= a.parameters.sustain
                        THEN renderLoop(goToNextState([a EXCEPT !.envelopeVal = a.parameters.sustain]),
                                        left - 1, added + 1)
                        ELSE IF s = 0
                        THEN [adsr |-> a, added |-> added + left, cleared |-> FALSE]
                        ELSE IF v - k * s <= a.parameters.sustain
                        THEN renderLoop(goToNextState([a EXCEPT !.envelopeVal = a.parameters.sustain]),
                                        left - k, added + k)
                        ELSE renderLoop([a EXCEPT !.envelopeVal = v - k * s], left - k, added + k)
               [] a.state = "release" ->
                    LET s == Step(a.releaseRate, UlpBelow(v))
                        k == Min(left, CeilDiv(v - BinadeFloor(v), s))
                    IN  IF v <= 0
                        THEN [adsr |-> adsrReset(a), added |-> added, cleared |-> TRUE]
                        ELSE IF s = 0
                        THEN [adsr |-> a, added |-> added + left, cleared |-> FALSE]
                        ELSE IF v - k * s <= 0
                        THEN [adsr |-> adsrReset(a), added |-> added + k - 1, cleared |-> TRUE]
                        ELSE renderLoop([a EXCEPT !.envelopeVal = v - k * s], left - k, added + k)

\* the same loop one getNextSample call at a time
RECURSIVE renderLoopBySample(_, _, _)
renderLoopBySample(a, left, added) ==
    IF left = 0 THEN [adsr |-> a, added |-> added, cleared |-> FALSE]
    ELSE LET b == getNextSample(a)
         IN  IF ~adsrIsActive(b)
             THEN [adsr |-> b, added |-> added, cleared |-> TRUE]
             ELSE renderLoopBySample(b, left - 1, added + 1)

\* a sample loop that leaves without clearing the current note
KeepVoice(voice) == voice

\* the voice when the sample loop has seen the envelope generator inactive
FreeVoice(voice) == clearCurrentNote(voice)

\* AdditiveVoice::renderNextBlock: the voice after the call and the number
\* of samples it added to the output buffer
renderNextBlock(voice, numSamples, params) ==
    IF ~isVoiceActive(voice) THEN [voice |-> voice, added |-> 0]
    ELSE LET v1 == updateADSR(rebuildHarmonics(voice, params), params)
             r  == renderLoop(v1.adsr, numSamples, 0)
             v2 == [v1 EXCEPT !.adsr = r.adsr]
         IN  [voice |-> IF r.cleared THEN FreeVoice(v2) ELSE v2,
              added |-> r.added]

\* a turn of the sample loop that writes the sample before it looks at the
\* envelope generator
loopTurnWriteFirst(l, params) ==
    LET a == getNextSample(l.voice.adsr)
        v == [l.voice EXCEPT !.adsr = a]
        m == [l EXCEPT !.phase = advancePhase(@, l.voice, l.u, l.n, params),
                       !.written = [@ EXCEPT ![l.sample] = @ + 1]]
    IN  IF ~adsrIsActive(a)
        THEN [m EXCEPT !.voice = clearCurrentNote(v), !.freedAt = l.sample,
                       !.running = FALSE]
        ELSE [m EXCEPT !.voice = v, !.sample = @ + 1,
                       !.running = l.sample + 1 < l.startSample + l.numSamples]

\* one turn of the sample loop of renderNextBlock on l: the voice, the
\* accumulator uniPhaseAccumulators[u][n - 1] followed, the index sample
\* the loop is at, how often the call has written each index of the output
\* buffer, and the index at which the loop was left by break (-1: not left)
loopTurn(l, params) ==
    LET a == getNextSample(l.voice.adsr)
        v == [l.voice EXCEPT !.adsr = a]
        m == [l EXCEPT !.phase = IF l.u < UniCount(params)
                                    /\ l.n <= l.voice.harmonicData.activeCount
                                 THEN advancePhase(@, l.voice, l.u, l.n, params)
                                 ELSE @]
    IN  IF ~adsrIsActive(a)
        THEN [m EXCEPT !.voice = clearCurrentNote(v), !.freedAt = l.sample,
                       !.running = FALSE]
        ELSE [m EXCEPT !.voice = v, !.sample = @ + 1,
                       !.written = [@ EXCEPT ![l.sample] = @ + 1],
                       !.running = l.sample + 1 < l.startSample + l.numSamples]

\* ------------------------------------------------------------------------
\* WaveformAnalyzer
\* ------------------------------------------------------------------------

kFFTOrder == 12

kFFTSize == 2 ^ kFFTOrder

\* indices of fftMagnitudes, kFFTSize / 2 of them
Bins == 0..(kFFTSize \div 2 - 1)

\* the float that is not a number; every other float of the analyzer is a
\* count of 1/kOne and is not negative
NaN == 0 - 1

\* a / b in floats
FDiv(a, b) == IF a = NaN \/ b = NaN THEN NaN ELSE (a * kOne) \div b

\* the result of folding std::max over the values of f, starting from 0.0f:
\* std::max(a, b) is (a < b) ? b : a, which keeps a when b is not a number
FoldMax(f) ==
    LET vals == {f[i] : i \in DOMAIN f} \cup {0}
    IN  CHOOSE x \in vals : \A y \in vals : y <= x

\* no file: what the control thread holds before its first loadFile.  A
\* file's lengthInSamples, a 64-bit count, is high * 2^31 + low with low
\* below 2^31.
NoFile ==
    [name |-> "", decodable |-> FALSE, lengthInSamples |-> [high |-> 0, low |-> 0],
     content |-> "silence", bin |-> 0]

\* a WaveformAnalyzer after construction
NewAnalyzer ==
    [spectralEnvelope |-> [h \in Harmonics |-> kOne],
     fftMagnitudes |-> [b \in Bins |-> 0],
     loadedFile |-> "", fileLoaded |-> FALSE]

\* formatManager.createReaderFor(file) != nullptr
HasReader(file) == file.decodable

\* the largest int
kIntMax == 2147483647

\* static_cast<int>(reader->lengthInSamples): the low 32 bits of the count
\* read as a two's complement number
ToInt(length) ==
    IF length.high % 2 = 0 THEN length.low ELSE (length.low - kIntMax) - 1

\* samplesToRead = min((int) lengthInSamples, kFFTSize)
SamplesToRead(file) == Min(ToInt(file.lengthInSamples), kFFTSize)

\* sqrt(real^2 + imag^2) of bin b of the transform of the windowed, zero
\* padded buffer.  With one sample the window is 0 / 0, not a number, and
\* so is every bin; a silent or empty buffer, or one the window loop never
\* enters because numSamples is negative, transforms to zero; a sine on
\* bin file.bin leaves that bin and, at half its height, its two
\* neighbours.
RawMagnitude(file, numSamples, b) ==
    IF numSamples = 1 THEN NaN
    ELSE IF numSamples <= 0 \/ file.content = "silence" THEN 0
    ELSE IF b = file.bin THEN 2 * kOne
    ELSE IF Abs(b - file.bin) = 1 THEN kOne
    ELSE 0

\* analyze, magnitude part: fftMagnitudes after extraction and division by
\* maxMagnitude when that is positive
analyzeMagnitudes(file, numSamples) ==
    LET raw          == [b \in Bins |-> RawMagnitude(file, numSamples, b)]
        maxMagnitude == FoldMax(raw)
    IN  IF maxMagnitude > 0 THEN [b \in Bins |-> FDiv(raw[b], maxMagnitude)]
        ELSE raw

\* binsPerHarmonic = halfSize / kMaxHarmonics
binsPerHarmonic == (kFFTSize \div 2) \div kMaxHarmonics

RECURSIVE SumBins(_, _, _)
SumBins(magnitudes, b, endBin) ==
    IF b >= endBin THEN 0
    ELSE LET rest == SumBins(magnitudes, b + 1, endBin)
         IN  IF magnitudes[b] = NaN \/ rest = NaN THEN NaN
             ELSE magnitudes[b] + rest

\* analyze, band part: what the bin-averaging loop stores in
\* spectralEnvelope[h - 1]
BandAverage(magnitudes, h) ==
    LET startBin == (h - 1) * binsPerHarmonic
        endBin   == Min(h * binsPerHarmonic, kFFTSize \div 2)
        sum      == SumBins(magnitudes, startBin, endBin)
    IN  IF endBin - startBin > 0
        THEN (IF sum = NaN THEN NaN ELSE sum \div (endBin - startBin))
        ELSE 0

\* analyze, last part: v /= maxEnv for every band when maxEnv > 0
NormalizeEnvelope(envelope) ==
    LET maxEnv == FoldMax(envelope)
    IN  IF maxEnv > 0 THEN [h \in Harmonics |-> FDiv(envelope[h], maxEnv)]
        ELSE envelope

\* the spectral envelope a completed analyze leaves for the file
analyze(file, numSamples) ==
    LET magnitudes == analyzeMagnitudes(file, numSamples)
    IN  NormalizeEnvelope([h \in Harmonics |-> BandAverage(magnitudes, h)])

\* ------------------------------------------------------------------------
\* juce::Synthesiser, AdditiveSynthEngine and the plugin processor
\* ------------------------------------------------------------------------

VoiceIds == 1..kMaxPolyphony

\* kDegreesToRadians = twoPi / 360
DegreesToRadians(deg) == (deg * kTwoPi) \div 360

\* the voices findFreeVoice can hand out
FreeVoices(vs) == {i \in VoiceIds : ~isVoiceActive(vs[i])}

\* Synthesiser::findFreeVoice without stealing: the first voice not active
findFreeVoice(vs) == CHOOSE i \in FreeVoices(vs) : \A j \in FreeVoices(vs) : i <= j

\* the voices a note-on or note-off for the note reaches
VoicesPlaying(vs, note) == {i \in VoiceIds : vs[i].currentlyPlayingNote = note}

\* Synthesiser::noteOn: voices still playing the note are stopped with
\* tail-off, then the free voice is started
synthNoteOn(vs, note, velocity, params) ==
    LET stopped == [i \in VoiceIds |->
                      IF i \in VoicesPlaying(vs, note) THEN stopNote(vs[i], TRUE)
                      ELSE vs[i]]
        free    == findFreeVoice(stopped)
    IN  [stopped EXCEPT ![free] = startNote(@, note, velocity, params)]

\* Synthesiser::noteOff with allowTailOff = true, as handleMidiEvent calls it
synthNoteOff(vs, note) ==
    [i \in VoiceIds |->
        IF i \in VoicesPlaying(vs, note) THEN stopNote(vs[i], TRUE) ELSE vs[i]]

\* Synthesiser::allNotesOff(channel, true) of an all-notes-off message: the
\* voices playing the channel
synthAllNotesOff(vs) ==
    [i \in VoiceIds |-> IF isVoiceActive(vs[i]) THEN stopNote(vs[i], TRUE) ELSE vs[i]]

\* AdditiveSynthEngine::prepareToPlay: Synthesiser::setCurrentPlaybackSampleRate
\* calls allNotesOff(0, false) on a changed rate, then every voice is
\* prepared
enginePrepareToPlay(vs, sampleRate, rateChanged) ==
    [i \in VoiceIds |->
        voicePrepareToPlay(IF rateChanged THEN stopNote(vs[i], FALSE) ELSE vs[i],
                           sampleRate)]

\* a search that returns the last active voice
getLastActiveHarmonicData(vs) ==
    LET active == VoiceIds \ FreeVoices(vs)
    IN  IF active = {} THEN [found |-> FALSE, voice |-> 0, data |-> EmptyHarmonicData]
        ELSE LET i == CHOOSE j \in active : \A k \in active : k <= j
             IN  [found |-> TRUE, voice |-> i, data |-> vs[i].harmonicData]

\* AdditiveSynthEngine::getActiveHarmonicData: the pointer returned, as
\* found (not null), the voice pointed into and the data read through it
getActiveHarmonicData(vs) ==
    LET active == VoiceIds \ FreeVoices(vs)
    IN  IF active = {} THEN [found |-> FALSE, voice |-> 0, data |-> EmptyHarmonicData]
        ELSE LET i == CHOOSE j \in active : \A k \in active : j <= k
             IN  [found |-> TRUE, voice |-> i, data |-> vs[i].harmonicData]

\* a preview computed for 44100 Hz whatever the engine was prepared for
computePreviewHarmonicsAt44100(params, sampleRate) ==
    LET data == apply(compute(params.oscRatio, params.sawPhase, params.sqrPhase,
                              440, 44100),
                      params.filterCutoff, params.filterBoost, params.filterPhase,
                      params.filterStretch, 440, 44100)
    IN  IF params.waveFilterEnabled /\ params.waveFilterMix > 0
        THEN applyWaveformFilter(data, params.waveFilterSpectrum, params.waveFilterMix)
        ELSE data

\* AdditiveSynthEngine::computePreviewHarmonics, refFreq = 440
computePreviewHarmonics(params, sampleRate) ==
    LET data == apply(compute(params.oscRatio, params.sawPhase, params.sqrPhase,
                              440, sampleRate),
                      params.filterCutoff, params.filterBoost, params.filterPhase,
                      params.filterStretch, 440, sampleRate)
    IN  IF params.waveFilterEnabled /\ params.waveFilterMix > 0
        THEN applyWaveformFilter(data, params.waveFilterSpectrum, params.waveFilterMix)
        ELSE data

\* updateSynthParameters: the shared voice parameters after the call
updateSynthParameters(vp, snapshot, an) ==
    [vp EXCEPT !.oscRatio = snapshot.oscRatio,
               !.sawPhase = DegreesToRadians(snapshot.sawPhase),
               !.sqrPhase = DegreesToRadians(snapshot.sqrPhase),
               !.filterCutoff = snapshot.filterCutoff,
               !.filterBoost = snapshot.filterBoost,
               !.filterPhase = DegreesToRadians(snapshot.filterPhase),
               !.filterStretch = snapshot.filterStretch,
               !.waveFilterMix = snapshot.waveFilterMix,
               !.waveFilterEnabled = an.fileLoaded,
               !.waveFilterSpectrum = IF an.fileLoaded THEN an.spectralEnvelope ELSE @,
               !.envAttack = snapshot.envAttack,
               !.envDecay = snapshot.envDecay,
               !.envSustain = snapshot.envSustain,
               !.envRelease = snapshot.envRelease]

\* updateSynthParameters: the unison processor after its three setters
updateUnison(snapshot) ==
    [voiceCount |-> jlimit(1, kMaxUnisonVoices, snapshot.unisonCount),
     detuneAmount |-> snapshot.unisonDetune,
     stereoWidth |-> jlimit(0, 100, snapshot.stereoWidth)]

\* ------------------------------------------------------------------------
\* Input sets of the model
\* ------------------------------------------------------------------------

Notes == {33, 45, 57, 69, 81, 93, 105, 117}

\* 14080 Hz puts harmonics exactly on Nyquist
SampleRates == {8000, 14080, 44100}

Ratios == {0, 50, 100}

PhasesDeg == {0, 90}

Cutoffs == {4, 256}

Boosts == {0, 12}

Stretches == {50, 100, 150, 200}

Mixes == {0, 50, 100}

\* spectral envelopes handed to applyWaveformFilter: flat, falling as 1/n,
\* and half height on odd bands only
WaveEnvelopes ==
    {[n \in Harmonics |-> kOne],
     [n \in Harmonics |-> kOne \div n],
     [n \in Harmonics |-> IF n % 2 = 1 THEN kOne \div 2 ELSE 0]}

\* the files the user picks: one no decoder opens, silence, an empty file,
\* a file of one sample, and two sines of full length on different bins
Files ==
    {[name |-> "notes.txt", decodable |-> FALSE, lengthInSamples |-> [high |-> 0, low |-> 0],
      content |-> "silence", bin |-> 0],
     [name |-> "silence.wav", decodable |-> TRUE, lengthInSamples |-> [high |-> 0, low |-> 48000],
      content |-> "silence", bin |-> 0],
     [name |-> "click.wav", decodable |-> TRUE, lengthInSamples |-> [high |-> 0, low |-> 1],
      content |-> "sine", bin |-> 0],
     [name |-> "low.wav", decodable |-> TRUE, lengthInSamples |-> [high |-> 0, low |-> 48000],
      content |-> "sine", bin |-> 20],
     [name |-> "high.wav", decodable |-> TRUE, lengthInSamples |-> [high |-> 0, low |-> 48000],
      content |-> "sine", bin |-> 1000]}

\* loadFile calls of one run
MaxLoads == 3

\* steps the control thread takes through each of analyze's two loops over
\* the envelope, between which the audio thread can run
LoaderChunks == 2

\* samples per processBlock call
BlockSize == 4096

\* midi notes the keyboard sends, and their velocity in percent
NotesPlayed == {69}

Velocities == {100}

\* voices the model lets sound at once
MaxActiveVoices == 2

\* parameter changes the control thread makes in one run of the plugin
MaxParamChanges == 1

\* note-on messages and prepareToPlay calls in one run of the plugin while
\* the control thread changes parameters
SpecNoteOns == 1

SpecPrepares == 1

\* note-on messages and prepareToPlay calls in one run of the voices
MaxNoteOns == 2

MaxPrepares == 2

\* createParameterLayout: every parameter id with its default value
ParamDefaults ==
    [oscRatio |-> 50, sawPhase |-> 0, sqrPhase |-> 0,
     filterCutoff |-> 128, filterBoost |-> 0, filterPhase |-> 0,
     filterStretch |-> 100, waveFilterMix |-> 0,
     unisonCount |-> 1, unisonDetune |-> 10, stereoWidth |-> 50,
     envAttack |-> 10, envDecay |-> 100, envSustain |-> 80, envRelease |-> 300,
     masterGain |-> 0]

\* the values the control thread sets a parameter to, all inside the
\* parameter's range
ParamValues ==
    [oscRatio |-> {100}, sawPhase |-> {90}, sqrPhase |-> {90},
     filterCutoff |-> {4}, filterBoost |-> {12}, filterPhase |-> {90},
     filterStretch |-> {200}, waveFilterMix |-> {50},
     unisonCount |-> {2}, unisonDetune |-> {100}, stereoWidth |-> {100},
     envAttack |-> {1}, envDecay |-> {1}, envSustain |-> {0},
     envRelease |-> {1}, masterGain |-> {-6}]

ParamIds == DOMAIN ParamValues

\* ------------------------------------------------------------------------
\* State
\* ------------------------------------------------------------------------

\* pureIn, pureOut   inputs and result of a part of the program run alone
\* apvts             the parameter snapshot the control thread writes
\* voiceParams       the engine's shared AdditiveVoiceParams
\* unisonProcessor   voiceCount, detuneAmount, stereoWidth of the processor
\* masterGainDb      the engine's master gain
\* currentSampleRate the engine's own copy of the sample rate
\* voices            the synthesiser's kMaxPolyphony voices
\* pc                where the audio thread is: "unprepared", "idle"
\*                   (between blocks) or "render" (inside processBlock)
\* remaining         samples of the current block not rendered yet
\* budget            parameter changes, note-on messages, prepareToPlay
\*                   calls and loadFile calls the run may still make
\* trace             what the last step did: its operation, the voices
\*                   active before it, the voices it called startNote and
\*                   stopNote on, and the samples each voice's
\*                   renderNextBlock added
\* analyzer          the WaveformAnalyzer's members
\* loader            the control thread's position inside loadFile
VARIABLES pureIn, pureOut, apvts, voiceParams, unisonProcessor, masterGainDb, currentSampleRate, voices, pc, remaining, budget, trace, analyzer, loader

pureVars == << pureIn, pureOut >>

engineVars == << voiceParams, unisonProcessor, masterGainDb, currentSampleRate, voices >>

loadVars == << analyzer, loader >>

vars == << pureIn, pureOut, apvts, voiceParams, unisonProcessor, masterGainDb, currentSampleRate, voices, pc, remaining, budget, trace, analyzer, loader >>

\* ------------------------------------------------------------------------
\* The harmonic pipeline as a function of its inputs
\* ------------------------------------------------------------------------

PureInputs ==
    [ratio : Ratios, sawPhase : {DegreesToRadians(d) : d \in PhasesDeg},
     sqrPhase : {0}, noteFreqHz : {MidiNoteInHertz(m) : m \in Notes},
     sampleRate : SampleRates, cutoff : Cutoffs, boostDb : Boosts,
     phaseRot : {0}, stretch : Stretches]

\* what a step did, for a step that calls no voice: the voices active
\* before it, no startNote, no stopNote, no sample added
NoTrace(op) ==
    [op |-> op, wasActive |-> VoiceIds \ FreeVoices(voices),
     startNote |-> {}, stopNoteNow |-> {}, stopNoteTail |-> {},
     added |-> [i \in VoiceIds |-> 0]]

\* the engine, the analyzer and the audio thread after construction
InitEngine ==
    /\ voiceParams = DefaultVoiceParams
    /\ unisonProcessor = [voiceCount |-> 1, detuneAmount |-> 10, stereoWidth |-> 50]
    /\ masterGainDb = 0
    /\ currentSampleRate = 44100
    /\ voices = [i \in VoiceIds |-> NewVoice]
    /\ pc = "unprepared"
    /\ remaining = 0
    /\ trace = NoTrace("construct")
    /\ analyzer = NewAnalyzer
    /\ loader = [pc |-> "idle", file |-> NoFile, band |-> 0, maxEnv |-> 0]

\* the plugin after construction: every parameter at its default
InitPlugin == apvts = ParamDefaults /\ InitEngine

pluginVars == << apvts, voiceParams, unisonProcessor, masterGainDb, currentSampleRate, voices, pc, remaining, budget, trace, analyzer, loader >>

InitPure ==
    /\ pureIn \in PureInputs
    /\ pureOut = [stage |-> "none", data |-> EmptyHarmonicData]
    /\ budget = [paramChanges |-> 0, noteOns |-> 0, prepares |-> 0, loads |-> 0]
    /\ InitPlugin

PureCompute ==
    /\ pureOut.stage = "none"
    /\ pureOut' = [stage |-> "computed",
                   data  |-> compute(pureIn.ratio, pureIn.sawPhase, pureIn.sqrPhase,
                                     pureIn.noteFreqHz, pureIn.sampleRate)]
    /\ UNCHANGED << pureIn, pluginVars >>

PureApply ==
    /\ pureOut.stage = "computed"
    /\ pureOut' = [stage |-> "filtered",
                   data  |-> apply(pureOut.data, pureIn.cutoff, pureIn.boostDb,
                                   pureIn.phaseRot, pureIn.stretch,
                                   pureIn.noteFreqHz, pureIn.sampleRate)]
    /\ UNCHANGED << pureIn, pluginVars >>

\* applyWaveformFilter on the filtered data; before keeps the data handed in
PureApplyWaveformFilter ==
    /\ pureOut.stage = "filtered"
    /\ \E mix \in Mixes : \E spectralEnvelope \in WaveEnvelopes :
         pureOut' = [stage |-> "waveFiltered",
                     data |-> applyWaveformFilter(pureOut.data, spectralEnvelope, mix),
                     before |-> pureOut.data, mix |-> mix,
                     spectralEnvelope |-> spectralEnvelope]
    /\ UNCHANGED << pureIn, pluginVars >>

\* a voice prepared for the sample rate is started on the note of the
\* inputs' frequency, under voice parameters that hold the inputs
PureStartNote ==
    /\ pureOut.stage = "none"
    /\ \E note \in Notes : \E velocity \in Velocities :
         /\ MidiNoteInHertz(note) = pureIn.noteFreqHz
         /\ LET params == [DefaultVoiceParams EXCEPT
                             !.oscRatio = pureIn.ratio, !.sawPhase = pureIn.sawPhase,
                             !.sqrPhase = pureIn.sqrPhase,
                             !.filterCutoff = pureIn.cutoff,
                             !.filterBoost = pureIn.boostDb,
                             !.filterPhase = pureIn.phaseRot,
                             !.filterStretch = pureIn.stretch]
                voice == startNote(voicePrepareToPlay(NewVoice, pureIn.sampleRate),
                                   note, velocity, params)
            IN  pureOut' = [stage |-> "started", data |-> voice.harmonicData,
                            voice |-> voice, params |-> params]
    /\ UNCHANGED << pureIn, pluginVars >>

NextPure == PureCompute \/ PureApply \/ PureApplyWaveformFilter \/ PureStartNote

SpecPure == InitPure /\ [][NextPure]_vars

\* C1: compute returns as activeCount the largest n in 1..256 with
\* n * f < sampleRate / 2 (0 when there is none), and every harmonic
\* n <= activeCount is below Nyquist.
C1_ActiveCountMaximal ==
    pureOut.stage = "computed" =>
        LET below == {n \in Harmonics : 2 * (n * pureIn.noteFreqHz) < pureIn.sampleRate}
            ac    == pureOut.data.activeCount
        IN  /\ ac \in 0..kMaxHarmonics
            /\ \A n \in Harmonics : n <= ac => n \in below
            /\ \A n \in below : n <= ac
            /\ below = {} => ac = 0

\* compute has run on a note with a harmonic exactly on Nyquist, which is
\* the first one left out
C1_Witness ==
    /\ pureOut.stage = "computed"
    /\ pureOut.data.activeCount > 0
    /\ 2 * ((pureOut.data.activeCount + 1) * pureIn.noteFreqHz) = pureIn.sampleRate

\* C15: compute gives every active harmonic n the amplitude
\* ratio * (1/n) + (1 - ratio) * (1/n if n is odd, else 0): 1/n for a pure
\* sawtooth (ratio 1), and 1/n on odd and 0 on even harmonics for a pure
\* square (ratio 0).
C15_AmplitudeIsBlend ==
    pureOut.stage = "computed" =>
        \A n \in 1..pureOut.data.activeCount :
            LET inv == kOne \div n
                odd == IF n % 2 = 1 THEN inv ELSE 0
                amp == pureOut.data.amplitudes[n]
            IN  /\ pureIn.ratio = 100 => amp = inv
                /\ pureIn.ratio = 0 => amp = odd
                /\ amp = (pureIn.ratio * inv + (100 - pureIn.ratio) * odd) \div 100

\* compute has built a pure square with a silent second and a sounding
\* third harmonic
C15_Witness ==
    /\ pureOut.stage = "computed"
    /\ pureIn.ratio = 0
    /\ pureOut.data.activeCount >= 3
    /\ pureOut.data.amplitudes[2] = 0
    /\ pureOut.data.amplitudes[3] = kOne \div 3

\* C16: applyWaveformFilter leaves the phases, activeCount and the
\* amplitudes at indices from activeCount on as they were; with mix 0 it
\* leaves everything identical; with mix 1 every amplitude below
\* activeCount becomes exactly amplitude * envelope.
C16_WaveformFilterMixEnds ==
    pureOut.stage = "waveFiltered" =>
        /\ pureOut.data.phases = pureOut.before.phases
        /\ pureOut.data.activeCount = pureOut.before.activeCount
        /\ \A n \in Harmonics :
             n > pureOut.before.activeCount =>
                 pureOut.data.amplitudes[n] = pureOut.before.amplitudes[n]
        /\ pureOut.mix = 0 => pureOut.data = pureOut.before
        /\ pureOut.mix = 100 =>
             \A n \in 1..pureOut.before.activeCount :
                 pureOut.data.amplitudes[n] =
                     (pureOut.before.amplitudes[n] * pureOut.spectralEnvelope[n]) \div kOne

\* a full-wet filter has lowered an amplitude without silencing it
C16_Witness ==
    /\ pureOut.stage = "waveFiltered"
    /\ pureOut.mix = 100
    /\ \E n \in 1..pureOut.before.activeCount :
         /\ pureOut.data.amplitudes[n] > 0
         /\ pureOut.data.amplitudes[n] < pureOut.before.amplitudes[n]

\* C13: after apply the harmonics with fundamental * n^stretch >= sampleRate / 2
\* (n^stretch in tenths at least 5 * sampleRate / fundamental) are one
\* contiguous tail; each has amplitude 0 and lies above the
\* recomputed activeCount, and every harmonic up to activeCount is below
\* Nyquist.
C13_StretchTruncatesOneTail ==
    pureOut.stage = "filtered" =>
        LET over == {n \in Harmonics :
                        StretchedN10(n, pureIn.stretch)
                            >= CeilDiv(5 * pureIn.sampleRate, pureIn.noteFreqHz)}
            ac   == pureOut.data.activeCount
        IN  /\ \A n \in over : pureOut.data.amplitudes[n] = 0 /\ n > ac
            /\ \A n \in Harmonics : n <= ac => n \notin over
            /\ \A n \in over : \A m \in Harmonics : m >= n => m \in over

\* apply has cut harmonics that compute had kept, the first of them exactly on
\* Nyquist, and has kept others
C13_Witness ==
    /\ pureOut.stage = "filtered"
    /\ pureOut.data.activeCount > 0
    /\ pureOut.data.activeCount < computeLoopEnd(pureIn.noteFreqHz, pureIn.sampleRate) - 1
    /\ 2 * pureIn.noteFreqHz * StretchedN10(pureOut.data.activeCount + 1, pureIn.stretch)
           = 10 * pureIn.sampleRate

\* C22: with ratio, boost, stretch, mix and envelope bands inside their
\* ranges every amplitude the pipeline compute, apply, applyWaveformFilter
\* produces is >= 0 and activeCount lies in 0..256.
C22_AmplitudesNonNegative ==
    pureOut.stage \in {"computed", "filtered", "waveFiltered"} =>
        /\ \A n \in Harmonics : pureOut.data.amplitudes[n] >= 0
        /\ pureOut.data.activeCount \in 0..kMaxHarmonics

\* the whole pipeline has run with a boost, a stretch below 1, a mix of one
\* half and an envelope with empty bands, and left harmonics
C22_Witness ==
    /\ pureOut.stage = "waveFiltered"
    /\ pureIn.boostDb = 12
    /\ pureIn.stretch = 50
    /\ pureIn.ratio = 50
    /\ pureOut.mix = 50
    /\ pureOut.spectralEnvelope[2] = 0
    /\ pureOut.data.activeCount > 0
    /\ pureOut.data.amplitudes[2] > 0

\* C23: a voice started on 440 Hz with ratio 1, cutoff 256, boost 0,
\* stretch 1 at 44100 Hz holds 50 active harmonics, amplitude 1.0 for the
\* first and 0.5 for the second.
C23_A4SawScenario ==
    (/\ pureOut.stage = "started"
     /\ pureOut.voice.noteFrequency = 440
     /\ pureOut.voice.currentSampleRate = 44100
     /\ pureOut.params.oscRatio = 100
     /\ pureOut.params.filterCutoff = 256
     /\ pureOut.params.filterBoost = 0
     /\ pureOut.params.filterStretch = 100
     /\ UniCount(pureOut.params) = 1)
        => /\ pureOut.voice.harmonicData.activeCount = 50
           /\ pureOut.voice.harmonicData.amplitudes[1] = kOne
           /\ 2 * pureOut.voice.harmonicData.amplitudes[2] = kOne

\* the voice of the scenario has been started
C23_Witness ==
    /\ pureOut.stage = "started"
    /\ pureOut.voice.currentlyPlayingNote = 69
    /\ pureOut.voice.noteFrequency = 440
    /\ pureOut.voice.currentSampleRate = 44100
    /\ pureOut.params.oscRatio = 100
    /\ pureOut.params.filterCutoff = 256
    /\ pureOut.params.filterBoost = 0
    /\ pureOut.params.filterStretch = 100
    /\ pureOut.params.unisonCount = 1

\* C30: after compute and apply, and after applyWaveformFilter, every
\* amplitude past activeCount is 0, and apply returns an activeCount that
\* is at most the one it was given, for every stretch.
C30_TailZeroAndCountNotRaised ==
    /\ pureOut.stage \in {"computed", "filtered", "waveFiltered", "started"} =>
          \A n \in Harmonics :
             n > pureOut.data.activeCount => pureOut.data.amplitudes[n] = 0
    /\ pureOut.stage = "filtered" =>
          pureOut.data.activeCount <=
             compute(pureIn.ratio, pureIn.sawPhase, pureIn.sqrPhase,
                     pureIn.noteFreqHz, pureIn.sampleRate).activeCount

\* apply has run with stretch 0.5 on a series that stopped at Nyquist
\* before harmonic 256 and whose next harmonic the stretch brings below
\* Nyquist
C30_Witness ==
    /\ pureOut.stage = "filtered"
    /\ pureIn.stretch = 50
    /\ pureOut.data.activeCount \in 1..(kMaxHarmonics - 1)
    /\ ~StretchedAtOrAboveNyquist(pureIn.noteFreqHz, pureOut.data.activeCount + 1,
                                  pureIn.stretch, pureIn.sampleRate)

\* ------------------------------------------------------------------------
\* The plugin: the audio thread's blocks, MIDI, and the control thread
\* ------------------------------------------------------------------------

PluginSampleRates == {8000, 44100}

\* nothing of the pipeline run alone happens in the plugin specifications
PureIdle ==
    [ratio |-> 50, sawPhase |-> 0, sqrPhase |-> 0, noteFreqHz |-> 440,
     sampleRate |-> 44100, cutoff |-> 256, boostDb |-> 0, phaseRot |-> 0,
     stretch |-> 100]

\* the plugin after construction, with the parameters at their defaults
Init ==
    /\ pureIn = PureIdle
    /\ pureOut = [stage |-> "none", data |-> EmptyHarmonicData]
    /\ budget = [paramChanges |-> MaxParamChanges, noteOns |-> SpecNoteOns,
                 prepares |-> SpecPrepares, loads |-> 0]
    /\ InitPlugin

\* AdditiveSynthesizerAudioProcessor::prepareToPlay, between blocks
PrepareToPlay ==
    /\ pc \in {"unprepared", "idle"}
    /\ budget.prepares > 0
    /\ budget' = [budget EXCEPT !.prepares = @ - 1]
    /\ \E sampleRate \in PluginSampleRates :
         LET rateChanged == pc = "unprepared" \/ sampleRate # voices[1].currentSampleRate
         IN  /\ voices' = enginePrepareToPlay(voices, sampleRate, rateChanged)
             /\ currentSampleRate' = sampleRate
             /\ trace' = [NoTrace("prepareToPlay") EXCEPT
                            !.stopNoteNow = IF rateChanged THEN VoiceIds ELSE {}]
    /\ pc' = "idle"
    /\ UNCHANGED << pureVars, apvts, voiceParams, unisonProcessor, masterGainDb, remaining, loadVars >>

\* a control thread that also updates the shared voice parameters itself
SetParameterAndVoiceParams ==
    /\ budget.paramChanges > 0
    /\ \E id \in ParamIds : \E value \in ParamValues[id] :
         /\ apvts' = [apvts EXCEPT ![id] = value]
         /\ voiceParams' = updateSynthParameters(voiceParams, apvts', analyzer)
    /\ budget' = [budget EXCEPT !.paramChanges = @ - 1]
    /\ trace' = NoTrace("setParameter")
    /\ UNCHANGED << pureVars, unisonProcessor, masterGainDb, currentSampleRate, voices, pc, remaining, loadVars >>

\* the control thread (editor or host automation) sets one parameter
SetParameter ==
    /\ budget.paramChanges > 0
    /\ \E id \in ParamIds : \E value \in ParamValues[id] :
         apvts' = [apvts EXCEPT ![id] = value]
    /\ budget' = [budget EXCEPT !.paramChanges = @ - 1]
    /\ trace' = NoTrace("setParameter")
    /\ UNCHANGED << pureVars, engineVars, pc, remaining, loadVars >>

\* processBlock up to and including updateSynthParameters
ProcessBlockBegin ==
    /\ pc = "idle"
    /\ voiceParams' = updateSynthParameters(voiceParams, apvts, analyzer)
    /\ unisonProcessor' = updateUnison(apvts)
    /\ masterGainDb' = apvts.masterGain
    /\ pc' = "render"
    /\ remaining' = BlockSize
    /\ trace' = NoTrace("processBlockBegin")
    /\ UNCHANGED << pureVars, apvts, currentSampleRate, voices, budget, loadVars >>

\* a note-on message reached inside Synthesiser::renderNextBlock
NoteOn ==
    /\ pc = "render"
    /\ Cardinality(VoiceIds \ FreeVoices(voices)) < MaxActiveVoices
    /\ budget.noteOns > 0
    /\ budget' = [budget EXCEPT !.noteOns = @ - 1]
    /\ \E note \in NotesPlayed : \E velocity \in Velocities :
         /\ voices' = synthNoteOn(voices, note, velocity, voiceParams)
         /\ trace' = [NoTrace("noteOn") EXCEPT
                        !.stopNoteTail = VoicesPlaying(voices, note),
                        !.startNote = {findFreeVoice(voices)}]
    /\ UNCHANGED << pureVars, apvts, voiceParams, unisonProcessor, masterGainDb, currentSampleRate, pc, remaining, loadVars >>

\* a note-off message
NoteOff ==
    /\ pc = "render"
    /\ \E note \in NotesPlayed :
         /\ VoicesPlaying(voices, note) # {}
         /\ voices' = synthNoteOff(voices, note)
         /\ trace' = [NoTrace("noteOff") EXCEPT !.stopNoteTail = VoicesPlaying(voices, note)]
    /\ UNCHANGED << pureVars, apvts, voiceParams, unisonProcessor, masterGainDb, currentSampleRate, pc, remaining, budget, loadVars >>

\* an all-notes-off or all-sound-off message
AllNotesOff ==
    /\ pc = "render"
    /\ FreeVoices(voices) # VoiceIds
    /\ voices' = synthAllNotesOff(voices)
    /\ trace' = [NoTrace("allNotesOff") EXCEPT !.stopNoteTail = VoiceIds \ FreeVoices(voices)]
    /\ UNCHANGED << pureVars, apvts, voiceParams, unisonProcessor, masterGainDb, currentSampleRate, pc, remaining, budget, loadVars >>

\* Synthesiser::renderVoices over the samples up to the next message or the
\* end of the block: renderNextBlock of every voice
RenderVoices ==
    /\ pc = "render"
    /\ remaining > 0
    /\ \E numSamples \in {remaining, BlockSize \div 2} :
         /\ numSamples <= remaining
         /\ LET r == [i \in VoiceIds |-> renderNextBlock(voices[i], numSamples, voiceParams)]
            IN  /\ voices' = [i \in VoiceIds |-> r[i].voice]
                /\ trace' = [NoTrace("render") EXCEPT !.added = [i \in VoiceIds |-> r[i].added]]
         /\ remaining' = remaining - numSamples
    /\ UNCHANGED << pureVars, apvts, voiceParams, unisonProcessor, masterGainDb, currentSampleRate, pc, budget, loadVars >>

\* the rest of processBlock: unison processing, master gain, copy for the
\* display
ProcessBlockEnd ==
    /\ pc = "render"
    /\ remaining = 0
    /\ pc' = "idle"
    /\ trace' = NoTrace("processBlockEnd")
    /\ UNCHANGED << pureVars, apvts, engineVars, remaining, budget, loadVars >>

Next ==
    \/ PrepareToPlay
    \/ SetParameter
    \/ ProcessBlockBegin
    \/ NoteOn
    \/ NoteOff
    \/ AllNotesOff
    \/ RenderVoices
    \/ ProcessBlockEnd

Spec == Init /\ [][Next]_vars

\* C9: the shared voice parameters are written only by the parameter update
\* at block entry; from there to the end of the block no step changes
\* them, so every voice of the block renders with the same values.
C9_WritesOnlyAtBlockEntry ==
    [][/\ voiceParams' # voiceParams => (pc = "idle" /\ trace'.op = "processBlockBegin")
       /\ pc = "render" => voiceParams' = voiceParams]_vars

\* a voice has rendered part of a block after the control thread changed
\* the stretch, and renders with the stretch of the block's entry
C9_Witness ==
    /\ trace.op = "render"
    /\ remaining > 0
    /\ trace.wasActive # {}
    /\ apvts.filterStretch # voiceParams.filterStretch

\* C10: after the block-entry update every field of the voice parameters
\* equals the snapshot's field, phases in radians, the unison count, detune
\* and stereo width included.
C10_EveryFieldFollowsSnapshot ==
    trace.op = "processBlockBegin" =>
        /\ voiceParams.oscRatio = apvts.oscRatio
        /\ voiceParams.sawPhase = DegreesToRadians(apvts.sawPhase)
        /\ voiceParams.sqrPhase = DegreesToRadians(apvts.sqrPhase)
        /\ voiceParams.filterCutoff = apvts.filterCutoff
        /\ voiceParams.filterBoost = apvts.filterBoost
        /\ voiceParams.filterPhase = DegreesToRadians(apvts.filterPhase)
        /\ voiceParams.filterStretch = apvts.filterStretch
        /\ voiceParams.waveFilterMix = apvts.waveFilterMix
        /\ voiceParams.envAttack = apvts.envAttack
        /\ voiceParams.envDecay = apvts.envDecay
        /\ voiceParams.envSustain = apvts.envSustain
        /\ voiceParams.envRelease = apvts.envRelease
        /\ voiceParams.unisonCount = apvts.unisonCount
        /\ voiceParams.unisonDetune = apvts.unisonDetune
        /\ voiceParams.stereoWidth = apvts.stereoWidth


AdsrDefault == [envAttack |-> 10, envDecay |-> 100, envSustain |-> 80, envRelease |-> 300]

AdsrNoSustain == [envAttack |-> 1, envDecay |-> 1, envSustain |-> 0, envRelease |-> 1]

AdsrLongRelease == [envAttack |-> 10, envDecay |-> 75, envSustain |-> 1, envRelease |-> 10000]

\* the default parameters with the envelope setting
WithAdsr(setting) ==
    [ParamDefaults EXCEPT !.envAttack = setting.envAttack,
                          !.envDecay = setting.envDecay,
                          !.envSustain = setting.envSustain,
                          !.envRelease = setting.envRelease]

InitVoice ==
    /\ pureIn = PureIdle
    /\ pureOut = [stage |-> "none", data |-> EmptyHarmonicData]
    /\ budget = [paramChanges |-> 0, noteOns |-> MaxNoteOns, prepares |-> MaxPrepares, loads |-> 0]
    /\ InitEngine
    /\ \E setting \in {AdsrDefault, AdsrNoSustain} : apvts = WithAdsr(setting)

NextVoice ==
    \/ PrepareToPlay
    \/ ProcessBlockBegin
    \/ NoteOn
    \/ NoteOff
    \/ AllNotesOff
    \/ RenderVoices
    \/ ProcessBlockEnd

SpecVoice == InitVoice /\ [][NextVoice]_vars

\* C6 as stated: a voice whose envelope value has come down to zero reports
\* itself inactive, here for a note held at its sustain level.
C6_ZeroEnvelopeIsInactive ==
    \A i \in VoiceIds :
        (voices[i].adsr.state = "sustain" /\ voices[i].adsr.envelopeVal = 0)
            => ~isVoiceActive(voices[i])

\* C6 amended: a render leaves no voice active whose envelope generator has
\* gone idle, and a voice inactive when a render begins is left as it is
\* and adds no sample.
C6_IdleEnvelopeIsInactive ==
    [][trace'.op = "render" =>
          \A i \in VoiceIds :
              /\ voices'[i].adsr.state = "idle" => ~isVoiceActive(voices'[i])
              /\ ~isVoiceActive(voices[i]) =>
                    (trace'.added[i] = 0 /\ voices'[i] = voices[i])]_vars

\* a voice that has played and gone idle is rendered again and adds nothing
C6_Witness ==
    /\ trace.op = "render"
    /\ \E i \in VoiceIds \ trace.wasActive :
         /\ voices[i].noteVelocity > 0
         /\ voices[i].adsr.state = "idle"
         /\ trace.added[i] = 0

\* C7: a voice stops being active only in a step that calls stopNote
\* without tail-off on it, which leaves its envelope reset, or in a render
\* that finds its envelope generator inactive; stopNote with tail-off
\* leaves an active voice active and releasing.
C7_LeavesPlayingOnlyTwoWays ==
    [][\A i \in VoiceIds :
          /\ (isVoiceActive(voices[i]) /\ ~isVoiceActive(voices'[i])) =>
                \/ /\ i \in trace'.stopNoteNow
                   /\ voices'[i].adsr.state = "idle"
                   /\ voices'[i].adsr.envelopeVal = 0
                \/ /\ trace'.op = "render"
                   /\ ~adsrIsActive(voices'[i].adsr)
          /\ i \in trace'.stopNoteNow => ~isVoiceActive(voices'[i])
          /\ (i \in trace'.stopNoteTail /\ isVoiceActive(voices[i])) =>
                (isVoiceActive(voices'[i]) /\ voices'[i].adsr.state = "release")]_vars

\* stopNote without tail-off has just made an active voice idle
C7_Witness ==
    \E i \in trace.stopNoteNow \cap trace.wasActive :
        /\ ~isVoiceActive(voices[i])
        /\ voices[i].adsr.state = "idle"


\* one note under each envelope setting, the audio thread never stopping:
\* a begun block is rendered and ended, and the next block begins
InitFair ==
    /\ pureIn = PureIdle
    /\ pureOut = [stage |-> "none", data |-> EmptyHarmonicData]
    /\ budget = [paramChanges |-> 0, noteOns |-> 1, prepares |-> 1, loads |-> 0]
    /\ InitEngine
    /\ \E setting \in {AdsrDefault, AdsrNoSustain, AdsrLongRelease} :
         apvts = WithAdsr(setting)

\* what every RenderVoices step, and no other step, does to the samples
\* left in the block
RenderProgress ==
    /\ pc = "render"
    /\ remaining > 0
    /\ remaining' \in 0..(remaining - 1)

FairSpec ==
    /\ InitFair
    /\ [][NextVoice]_vars
    /\ WF_vars(ProcessBlockBegin)
    /\ WF_remaining(RenderProgress)
    /\ WF_vars(ProcessBlockEnd)

\* C8: a voice released with tail-off, with blocks still being rendered,
\* eventually becomes idle.
C8_ReleasedVoiceBecomesIdle ==
    \A i \in VoiceIds :
        (isVoiceActive(voices[i]) /\ voices[i].adsr.state = "release")
            ~> ~isVoiceActive(voices[i])

\* ------------------------------------------------------------------------
\* The engine driven through its own interface
\* ------------------------------------------------------------------------

\* unison settings and stretch values a client of the engine writes
UnisonCounts == {1, 2, 8}

UnisonDetunes == {0, 100}

InitEngineClient ==
    /\ pureIn = PureIdle
    /\ pureOut = [stage |-> "none", data |-> EmptyHarmonicData]
    /\ budget = [paramChanges |-> MaxParamChanges, noteOns |-> SpecNoteOns,
                 prepares |-> SpecPrepares, loads |-> 0]
    /\ InitPlugin

\* a client writes the shared parameters through getVoiceParams(), between
\* blocks
WriteVoiceParams ==
    /\ pc = "idle"
    /\ budget.paramChanges > 0
    /\ \E count \in UnisonCounts : \E detune \in UnisonDetunes : \E stretch \in Stretches :
         voiceParams' = [voiceParams EXCEPT !.unisonCount = count,
                                            !.unisonDetune = detune,
                                            !.filterStretch = stretch]
    /\ budget' = [budget EXCEPT !.paramChanges = @ - 1]
    /\ trace' = NoTrace("getVoiceParams")
    /\ UNCHANGED << pureVars, apvts, unisonProcessor, masterGainDb, currentSampleRate, voices, pc, remaining, loadVars >>

\* AdditiveSynthEngine::processBlock up to the synthesiser's render
EngineBlockBegin ==
    /\ pc = "idle"
    /\ pc' = "render"
    /\ remaining' = BlockSize
    /\ trace' = NoTrace("engineProcessBlock")
    /\ UNCHANGED << pureVars, apvts, engineVars, budget, loadVars >>

NextEngine ==
    \/ PrepareToPlay
    \/ WriteVoiceParams
    \/ EngineBlockBegin
    \/ NoteOn
    \/ NoteOff
    \/ RenderVoices
    \/ ProcessBlockEnd

SpecEngine == InitEngineClient /\ [][NextEngine]_vars

\* C2: every harmonic a voice has just rendered, in every unison sub-voice,
\* has its effective frequency noteFrequency * 2^(cents/1200) * (n+1)^stretch
\* strictly below half the sample rate.
C2_RenderedBelowNyquist ==
    \A i \in VoiceIds :
        (trace.op = "render" /\ trace.added[i] > 0) =>
            \A p \in RenderedPartials(voices[i], voiceParams) :
                2 * RenderFreq10(voices[i], p[1], p[2], voiceParams)
                    < 10 * voices[i].currentSampleRate

\* ------------------------------------------------------------------------
\* Loading a waveform file while the audio thread runs
\* ------------------------------------------------------------------------

\* bands one step of the control thread writes
ChunkSize == kMaxHarmonics \div LoaderChunks

InitLoad ==
    /\ pureIn = PureIdle
    /\ pureOut = [stage |-> "none", data |-> EmptyHarmonicData]
    /\ budget = [paramChanges |-> 0, noteOns |-> 0, prepares |-> SpecPrepares,
                 loads |-> MaxLoads]
    /\ InitPlugin

\* a failed loadFile that also forgets the file it had
LoadFileFailClearing ==
    /\ loader.pc = "idle"
    /\ budget.loads > 0
    /\ \E file \in Files :
         /\ ~HasReader(file)
         /\ loader' = [loader EXCEPT !.file = file]
    /\ analyzer' = [analyzer EXCEPT !.fileLoaded = FALSE, !.loadedFile = ""]
    /\ budget' = [budget EXCEPT !.loads = @ - 1]
    /\ trace' = NoTrace("loadFileFalse")
    /\ UNCHANGED << pureVars, apvts, engineVars, pc, remaining >>

\* loadFile on a file no registered format opens: reader is null and the
\* call returns false
LoadFileFail ==
    /\ loader.pc = "idle"
    /\ budget.loads > 0
    /\ \E file \in Files :
         /\ ~HasReader(file)
         /\ loader' = [loader EXCEPT !.file = file]
    /\ budget' = [budget EXCEPT !.loads = @ - 1]
    /\ trace' = NoTrace("loadFileFalse")
    /\ UNCHANGED << pureVars, apvts, engineVars, pc, remaining, analyzer >>

\* loadFile on a decodable file, up to the forward transform: the reader,
\* the buffer and the transform's data are the call's own
LoadFileBegin ==
    /\ loader.pc = "idle"
    /\ budget.loads > 0
    /\ \E file \in Files :
         /\ HasReader(file)
         /\ loader' = [pc |-> "magnitudes", file |-> file, band |-> 0, maxEnv |-> 0]
    /\ budget' = [budget EXCEPT !.loads = @ - 1]
    /\ trace' = NoTrace("loadFileBegin")
    /\ UNCHANGED << pureVars, apvts, engineVars, pc, remaining, analyzer >>

\* analyze: the loops that fill and scale fftMagnitudes
AnalyzeMagnitudes ==
    /\ loader.pc = "magnitudes"
    /\ analyzer' = [analyzer EXCEPT !.fftMagnitudes =
                      analyzeMagnitudes(loader.file, SamplesToRead(loader.file))]
    /\ loader' = [loader EXCEPT !.pc = "bands", !.band = 0]
    /\ trace' = NoTrace("analyzeMagnitudes")
    /\ UNCHANGED << pureVars, apvts, engineVars, pc, remaining, budget >>

\* analyze: the next ChunkSize turns of the loop that stores each band's
\* average into spectralEnvelope, and after the last of them the loop that
\* finds maxEnv
AnalyzeBands ==
    /\ loader.pc = "bands"
    /\ LET upTo     == loader.band + ChunkSize
           envelope == [h \in Harmonics |->
                          IF h > loader.band /\ h <= upTo
                          THEN BandAverage(analyzer.fftMagnitudes, h)
                          ELSE analyzer.spectralEnvelope[h]]
       IN  /\ analyzer' = [analyzer EXCEPT !.spectralEnvelope = envelope]
           /\ loader' = IF upTo < kMaxHarmonics
                        THEN [loader EXCEPT !.band = upTo]
                        ELSE [loader EXCEPT !.pc = "normalize", !.band = 0,
                                            !.maxEnv = FoldMax(envelope)]
    /\ trace' = NoTrace("analyzeBands")
    /\ UNCHANGED << pureVars, apvts, engineVars, pc, remaining, budget >>

\* analyze: the next ChunkSize turns of v /= maxEnv, which run only when
\* maxEnv > 0
AnalyzeNormalize ==
    /\ loader.pc = "normalize"
    /\ IF loader.maxEnv > 0
       THEN LET upTo == loader.band + ChunkSize
            IN  /\ analyzer' = [analyzer EXCEPT !.spectralEnvelope =
                                  [h \in Harmonics |->
                                     IF h > loader.band /\ h <= upTo
                                     THEN FDiv(analyzer.spectralEnvelope[h], loader.maxEnv)
                                     ELSE analyzer.spectralEnvelope[h]]]
                /\ loader' = IF upTo < kMaxHarmonics
                             THEN [loader EXCEPT !.band = upTo]
                             ELSE [loader EXCEPT !.pc = "publish", !.band = 0]
       ELSE /\ analyzer' = analyzer
            /\ loader' = [loader EXCEPT !.pc = "publish", !.band = 0]
    /\ trace' = NoTrace("analyzeNormalize")
    /\ UNCHANGED << pureVars, apvts, engineVars, pc, remaining, budget >>

\* the end of a successful loadFile: loadedFile = file, fileLoaded = true,
\* return true
LoadFileEnd ==
    /\ loader.pc = "publish"
    /\ analyzer' = [analyzer EXCEPT !.loadedFile = loader.file.name,
                                    !.fileLoaded = TRUE]
    /\ loader' = [loader EXCEPT !.pc = "idle"]
    /\ trace' = NoTrace("loadFileTrue")
    /\ UNCHANGED << pureVars, apvts, engineVars, pc, remaining, budget >>

NextLoad ==
    \/ PrepareToPlay
    \/ ProcessBlockBegin
    \/ RenderVoices
    \/ ProcessBlockEnd
    \/ LoadFileFail
    \/ LoadFileBegin
    \/ AnalyzeMagnitudes
    \/ AnalyzeBands
    \/ AnalyzeNormalize
    \/ LoadFileEnd

SpecLoad == InitLoad /\ [][NextLoad]_vars

\* the envelopes a WaveformAnalyzer holds between loadFile calls: the one of
\* its construction and the one a completed analysis of a file leaves
CompleteEnvelopes ==
    {NewAnalyzer.spectralEnvelope}
        \cup {analyze(file, SamplesToRead(file)) : file \in {f \in Files : HasReader(f)}}

\* C3: the envelope the audio thread has copied into the voice parameters
\* is always a complete one, the previously published or the new normalized
\* one, never a partly overwritten or un-normalized mixture.
C3_CopiedEnvelopeIsComplete ==
    voiceParams.waveFilterEnabled =>
        voiceParams.waveFilterSpectrum \in CompleteEnvelopes

\* C4: a loadFile that returns false was given a file no decoder opens and
\* leaves the envelope, the magnitudes, the file name and the loaded flag
\* as they were; a loadFile that returns true was given a decodable file.
C4_FailedLoadChangesNothing ==
    [][/\ trace'.op = "loadFileFalse" =>
            (analyzer' = analyzer /\ ~HasReader(loader'.file))
       /\ (loader.pc = "idle" /\ loader'.pc = "idle" /\ loader' # loader) =>
            trace'.op = "loadFileFalse"
       /\ trace'.op = "loadFileTrue" => HasReader(loader'.file)]_vars

\* a load has just failed after an earlier load succeeded, and the analyzer
\* still shows the earlier file
C4_Witness ==
    /\ trace.op = "loadFileFalse"
    /\ ~HasReader(loader.file)
    /\ analyzer.fileLoaded
    /\ analyzer.loadedFile # ""
    /\ analyzer.spectralEnvelope # NewAnalyzer.spectralEnvelope

\* C5: when loadFile has returned true the largest band of the envelope is
\* exactly 1.0 and every band is in [0, 1].
C5_LoadedEnvelopeIsNormalized ==
    trace.op = "loadFileTrue" =>
        /\ FoldMax(analyzer.spectralEnvelope) = kOne
        /\ \A h \in Harmonics :
             analyzer.spectralEnvelope[h] >= 0 /\ analyzer.spectralEnvelope[h] <= kOne

\* ------------------------------------------------------------------------
\* One phase accumulator of a playing voice, sample by sample
\* ------------------------------------------------------------------------

PhaseNotes == {69, 117}

\* the accumulators followed: sub-voice index u and harmonic number n
ProbedSubVoices == {0, 1, 7}

ProbedHarmonics == {1, 2, 3, 9, 50}

\* samples and blocks rendered in one run
MaxPhaseSamples == 4

MaxPhaseBlocks == 2

PhaseInputs ==
    [midiNoteNumber : PhaseNotes, sampleRate : PluginSampleRates,
     unisonCount : UnisonCounts, unisonDetune : UnisonDetunes,
     filterStretch : Stretches, u : ProbedSubVoices, n : ProbedHarmonics]

InitPhase ==
    /\ pureIn \in PhaseInputs
    /\ pureOut = [stage |-> "none", data |-> EmptyHarmonicData]
    /\ budget = [paramChanges |-> 0, noteOns |-> 0, prepares |-> 0, loads |-> 0]
    /\ InitPlugin

\* prepareToPlay and startNote on a voice: the accumulators are filled with
\* zero.  expected is the phase the accumulator would have if every sample
\* advanced it.
PhaseStartNote ==
    /\ pureOut.stage = "none"
    /\ LET params == [DefaultVoiceParams EXCEPT
                        !.oscRatio = 100,
                        !.unisonCount = pureIn.unisonCount,
                        !.unisonDetune = pureIn.unisonDetune,
                        !.filterStretch = pureIn.filterStretch]
           voice  == startNote(voicePrepareToPlay(NewVoice, pureIn.sampleRate),
                               pureIn.midiNoteNumber, 100, params)
       IN  pureOut' = [stage |-> "started", params |-> params, voice |-> voice,
                       phase |-> 0, before |-> 0, expected |-> 0,
                       samples |-> 0, blocks |-> 0]
    /\ UNCHANGED << pureIn, pluginVars >>

\* the head of renderNextBlock, after the block-entry update brought a new
\* saw/square ratio: rebuildHarmonics and updateADSR
PhaseBlockHead ==
    /\ pureOut.stage \in {"started", "block", "sample"}
    /\ pureOut.blocks < MaxPhaseBlocks
    /\ \E ratio \in {0, 100} :
         LET params == [pureOut.params EXCEPT !.oscRatio = ratio]
         IN  pureOut' = [pureOut EXCEPT
                           !.stage = "block", !.params = params,
                           !.voice = updateADSR(rebuildHarmonics(@, params), params),
                           !.blocks = @ + 1]
    /\ UNCHANGED << pureIn, pluginVars >>

\* one sample of the block, as far as the followed accumulator goes; the
\* harmonic loop reaches it when u < uniCount and n - 1 < activeHarmonics
PhaseSample ==
    /\ pureOut.stage \in {"block", "sample"}
    /\ pureOut.samples < MaxPhaseSamples
    /\ pureIn.u < UniCount(pureOut.params)
    /\ pureIn.n <= pureOut.voice.harmonicData.activeCount
    /\ pureOut' = [pureOut EXCEPT
                     !.stage = "sample",
                     !.before = pureOut.phase,
                     !.phase = advancePhase(@, pureOut.voice, pureIn.u, pureIn.n,
                                            pureOut.params),
                     !.expected = wrapPhase(@ + PhaseAdvance(
                                     RenderFreq10(pureOut.voice, pureIn.u, pureIn.n,
                                                  pureOut.params),
                                     pureOut.voice.currentSampleRate)),
                     !.samples = @ + 1]
    /\ UNCHANGED << pureIn, pluginVars >>

NextPhase == PhaseStartNote \/ PhaseBlockHead \/ PhaseSample

SpecPhase == InitPhase /\ [][NextPhase]_vars

\* C11: from note start on and after every rendered sample the phase
\* accumulator lies in [0, 2 pi): one conditional subtraction of 2 pi after
\* each advance is enough.
C11_PhaseWithinOneCycle ==
    pureOut.stage \in {"started", "block", "sample"} =>
        pureOut.phase >= 0 /\ pureOut.phase < kTwoPi

\* a sample has just wrapped the accumulator of a detuned sub-voice whose
\* harmonic is rendered above half the sample rate, the largest advance
C11_Witness ==
    /\ pureOut.stage = "sample"
    /\ pureOut.phase < pureOut.before
    /\ 2 * RenderFreq10(pureOut.voice, pureIn.u, pureIn.n, pureOut.params)
           > 10 * pureOut.voice.currentSampleRate

\* C12: after every rendered sample the accumulator of every sub-voice below
\* the unison count and every harmonic below activeCount has advanced by
\* 2 pi f freqMul (n+1)^stretch / sampleRate, whatever the amplitude: it
\* equals the phase it would have had.
C12_AdvancedWhateverAmplitude ==
    pureOut.stage = "sample" => pureOut.phase = pureOut.expected

\* ------------------------------------------------------------------------
\* The unison set-up of a rendering voice
\* ------------------------------------------------------------------------

\* values of the unison count, in and out of 1..8, of the detune and of the
\* stereo width in percent, in and out of 0..100
UnisonCountValues == {-3, 0, 1, 2, 3, 4, 5, 8, 9, 100}

UnisonDetuneValues == {0, 10, 100}

StereoWidthValues == {-100, 0, 50, 100, 300}

\* the harmonic sum of sub-voice 0; sub-voice u sums to 1 / (u + 1) of it
UniOutputValues == {-5000, 10000}

UnisonInputs ==
    [unisonCount : UnisonCountValues, unisonDetune : UnisonDetuneValues,
     stereoWidth : StereoWidthValues, uniOutput : UniOutputValues]

InitUnison ==
    /\ pureIn \in UnisonInputs
    /\ pureOut = [stage |-> "none", data |-> EmptyHarmonicData]
    /\ budget = [paramChanges |-> 0, noteOns |-> 0, prepares |-> 0, loads |-> 0]
    /\ InitPlugin

\* renderNextBlock from the unison set-up to the sums of one sample
UnisonRender ==
    /\ pureOut.stage = "none"
    /\ LET params == [DefaultVoiceParams EXCEPT
                        !.unisonCount = pureIn.unisonCount,
                        !.unisonDetune = pureIn.unisonDetune,
                        !.stereoWidth = pureIn.stereoWidth]
           setup  == unisonSetup(params)
           out    == sampleOut([u \in DOMAIN setup.panL |-> pureIn.uniOutput \div (u + 1)],
                               setup)
       IN  pureOut' = [stage |-> "unison", setup |-> setup,
                       left |-> out.left, right |-> out.right]
    /\ UNCHANGED << pureIn, pluginVars >>

NextUnison == UnisonRender

SpecUnison == InitUnison /\ [][NextUnison]_vars

\* C17: with unison count 1 the left and right sums of a sample are equal
\* and the frequency multiplier of the one sub-voice is exactly 1, whatever
\* the detune and the stereo width.
C17_OneSubVoiceIsCentred ==
    (pureOut.stage = "unison" /\ pureIn.unisonCount = 1) =>
        /\ pureOut.left = pureOut.right
        /\ pureOut.setup.freqMul[0] = 1000

\* one sub-voice has sounded with the largest detune and full width
C17_Witness ==
    /\ pureOut.stage = "unison"
    /\ pureIn.unisonCount = 1
    /\ pureIn.unisonDetune = 100
    /\ pureIn.stereoWidth = 100
    /\ pureOut.left # 0

\* C18: whatever the unison count and the stereo width, the voice uses 1 to
\* 8 sub-voices, writes freqMul, panL and panR only at indices 0..7, and
\* every pan position lies in [0, 1].
C18_UnisonClamped ==
    pureOut.stage = "unison" =>
        /\ pureOut.setup.uniCount \in 1..kMaxUnisonVoices
        /\ DOMAIN pureOut.setup.freqMul \subseteq 0..(kMaxUnisonVoices - 1)
        /\ DOMAIN pureOut.setup.panL \subseteq 0..(kMaxUnisonVoices - 1)
        /\ DOMAIN pureOut.setup.panR \subseteq 0..(kMaxUnisonVoices - 1)
        /\ \A u \in DOMAIN pureOut.setup.panPos :
             pureOut.setup.panPos[u] >= 0 /\ pureOut.setup.panPos[u] <= kOne

\* a count above 8 was cut to 8 sub-voices and a width above 1 was held at
\* the hard left and hard right positions
C18_Witness ==
    /\ pureOut.stage = "unison"
    /\ pureIn.unisonCount > kMaxUnisonVoices
    /\ pureIn.stereoWidth > 100
    /\ pureOut.setup.uniCount = kMaxUnisonVoices
    /\ pureOut.setup.panPos[0] = 0
    /\ pureOut.setup.panPos[kMaxUnisonVoices - 1] = kOne

LengthHighs == 0..5

LengthLows == {0, 1, 2, 5, 4095, 4096, 4097, 48000, kIntMax - 1, kIntMax}

LengthInputs == [lengthInSamples : [high : LengthHighs, low : LengthLows]]

InitLength ==
    /\ pureIn \in LengthInputs
    /\ pureOut = [stage |-> "none", data |-> EmptyHarmonicData]
    /\ budget = [paramChanges |-> 0, noteOns |-> 0, prepares |-> 0, loads |-> 0]
    /\ InitPlugin

\* loadFile on a file a reader opens, up to the call of analyze
LoadFileCount ==
    /\ pureOut.stage = "none"
    /\ LET file == [NoFile EXCEPT !.name = "long.wav", !.decodable = TRUE,
                                  !.lengthInSamples = pureIn.lengthInSamples]
       IN  pureOut' = [stage |-> "read", file |-> file,
                       samplesToRead |-> SamplesToRead(file)]
    /\ UNCHANGED << pureIn, pluginVars >>

NextLength == LoadFileCount

SpecLength == InitLength /\ [][NextLength]_vars

\* C29: whatever length the reader reports, 2^31 samples and more included,
\* the number of samples loadFile reads and analyses lies in 0..4096 and is
\* the smaller of the file's length and 4096, not a negative or wrapped
\* count.
C29_SamplesReadWithinFile ==
    pureOut.stage = "read" =>
        /\ pureOut.samplesToRead \in 0..kFFTSize
        /\ pureOut.samplesToRead =
              IF pureOut.file.lengthInSamples.high > 0 THEN kFFTSize
              ELSE Min(pureOut.file.lengthInSamples.low, kFFTSize)

\* ------------------------------------------------------------------------
\* One voice through its operations, its sample loop turn by turn
\* ------------------------------------------------------------------------

\* samples of the output buffer, and the calls one run makes
LoopBlockSize == 12

MaxLoopNotes == 2

MaxLoopCalls == 3

LoopNotes == {57, 69}

\* envelope times of a millisecond, eight samples at 8000 Hz, and a sustain
\* level of one half
AdsrShort == [envAttack |-> 1, envDecay |-> 1, envSustain |-> 50, envRelease |-> 1]

\* where a render call may start in the buffer: at its head or after a MIDI
\* message in its middle
LoopStarts == {0, 4}

LoopInputs == [u : {0, 1}, n : {1, 9}, unisonCount : {2}]

\* what the last operation found: the accumulator followed, the pitch and
\* the velocity of the voice
LoopBefore(l) ==
    [phase |-> l.phase, noteFrequency |-> l.voice.noteFrequency,
     noteVelocity |-> l.voice.noteVelocity]

\* a voice after construction, nothing rendered yet
NewLoop ==
    [stage |-> "none", op |-> "construct",
     params |-> updateSynthParameters(DefaultVoiceParams, WithAdsr(AdsrShort),
                                      NewAnalyzer),
     voice |-> NewVoice, phase |-> 0,
     before |-> [phase |-> 0, noteFrequency |-> 440, noteVelocity |-> 0], u |-> 0, n |-> 1,
     startSample |-> 0, numSamples |-> 0, sample |-> 0,
     written |-> [x \in 0..(LoopBlockSize - 1) |-> 0],
     freedAt |-> -1, running |-> FALSE, notes |-> 0, calls |-> 0]

InitLoop ==
    /\ pureIn \in LoopInputs
    /\ pureOut = NewLoop
    /\ budget = [paramChanges |-> 0, noteOns |-> 0, prepares |-> 0, loads |-> 0]
    /\ InitPlugin

\* AdditiveVoice::prepareToPlay
LoopPrepareToPlay ==
    /\ ~pureOut.running
    /\ pureOut.stage # "prepared"
    /\ pureOut' = [pureOut EXCEPT
                     !.stage = "prepared", !.op = "prepareToPlay",
                     !.before = LoopBefore(pureOut),
                     !.u = pureIn.u, !.n = pureIn.n,
                     !.voice = voicePrepareToPlay(@, 8000)]
    /\ UNCHANGED << pureIn, pluginVars >>

\* Synthesiser::startVoice on the voice when it plays nothing: startNote,
\* which fills every accumulator, the one followed among them, with zero
LoopStartNote ==
    /\ ~pureOut.running
    /\ pureOut.stage # "none"
    /\ ~isVoiceActive(pureOut.voice)
    /\ pureOut.notes < MaxLoopNotes
    /\ \E note \in LoopNotes : \E velocity \in Velocities :
         LET params == [pureOut.params EXCEPT !.oscRatio = 100,
                                              !.unisonCount = pureIn.unisonCount,
                                              !.unisonDetune = 100]
         IN  pureOut' = [pureOut EXCEPT
                           !.stage = "played", !.op = "startNote",
                           !.params = params,
                           !.voice = startNote(@, note, velocity, params),
                           !.before = LoopBefore(pureOut),
                           !.phase = 0,
                           !.notes = @ + 1]
    /\ UNCHANGED << pureIn, pluginVars >>

\* AdditiveVoice::stopNote, with and without tail-off
LoopStopNote ==
    /\ ~pureOut.running
    /\ isVoiceActive(pureOut.voice)
    /\ \E allowTailOff \in BOOLEAN :
         pureOut' = [pureOut EXCEPT
                       !.stage = "played",
                       !.op = IF allowTailOff THEN "stopNoteTail" ELSE "stopNoteNow",
                       !.before = LoopBefore(pureOut),
                       !.voice = stopNote(@, allowTailOff)]
    /\ UNCHANGED << pureIn, pluginVars >>

\* renderNextBlock up to its sample loop: return at once for a voice that
\* plays nothing, else rebuildHarmonics and updateADSR
LoopBlockHead ==
    /\ ~pureOut.running
    /\ pureOut.stage # "none"
    /\ pureOut.calls < MaxLoopCalls
    /\ \E startSample \in LoopStarts : \E numSamples \in {4, LoopBlockSize - startSample} :
         pureOut' = [pureOut EXCEPT
                       !.stage = "played",
                       !.op = IF isVoiceActive(pureOut.voice) THEN "renderHead"
                              ELSE "renderIdle",
                       !.voice = IF isVoiceActive(pureOut.voice)
                                 THEN updateADSR(rebuildHarmonics(@, pureOut.params),
                                                 pureOut.params)
                                 ELSE @,
                       !.before = LoopBefore(pureOut),
                       !.startSample = startSample, !.numSamples = numSamples,
                       !.sample = startSample,
                       !.written = [x \in 0..(LoopBlockSize - 1) |-> 0],
                       !.freedAt = -1,
                       !.running = isVoiceActive(pureOut.voice),
                       !.calls = @ + 1]
    /\ UNCHANGED << pureIn, pluginVars >>

\* one turn of the sample loop
LoopSample ==
    /\ pureOut.running
    /\ pureOut' = [loopTurn(pureOut, pureOut.params) EXCEPT
                     !.op = "sample", !.before = LoopBefore(pureOut)]
    /\ UNCHANGED << pureIn, pluginVars >>

NextLoop ==
    \/ LoopPrepareToPlay
    \/ LoopStartNote
    \/ LoopStopNote
    \/ LoopBlockHead
    \/ LoopSample

SpecLoop == InitLoop /\ [][NextLoop]_vars

\* C25: when the envelope generator becomes inactive in the turn of sample
\* index s the voice frees itself in that turn, the call has written no
\* index from s on, s itself included, and has written every index from
\* its start up to s exactly once.
C25_FreedVoiceWritesNoMore ==
    (pureOut.op = "sample" /\ ~pureOut.running /\ ~adsrIsActive(pureOut.voice.adsr)) =>
        /\ ~isVoiceActive(pureOut.voice)
        /\ pureOut.freedAt = pureOut.sample
        /\ pureOut.freedAt \in pureOut.startSample..(pureOut.startSample + pureOut.numSamples - 1)
        /\ \A x \in 0..(LoopBlockSize - 1) :
             pureOut.written[x] =
                IF x >= pureOut.startSample /\ x < pureOut.freedAt THEN 1 ELSE 0

\* a released voice has written samples of a call that began in the middle
\* of the buffer and has then left the loop before the end of the call
C25_Witness ==
    /\ pureOut.op = "sample"
    /\ ~pureOut.running
    /\ ~isVoiceActive(pureOut.voice)
    /\ pureOut.startSample > 0
    /\ pureOut.freedAt > pureOut.startSample
    /\ pureOut.freedAt < pureOut.startSample + pureOut.numSamples - 1
    /\ pureOut.written[pureOut.startSample] = 1

\* C26: startNote leaves the accumulator at 0, the envelope generator with
\* the current ADSR parameters and in its attack, and the voice with the
\* HarmonicData of the new pitch; stopNote with and without tail-off,
\* prepareToPlay, a render call on a voice that plays nothing and the head
\* of a render call with its rebuildHarmonics leave the accumulator, the
\* pitch and the velocity as they were, and the sample loop leaves pitch
\* and velocity.
C26_OnlyStartNoteResets ==
    /\ pureOut.op = "startNote" =>
          /\ pureOut.phase = 0
          /\ pureOut.voice.noteFrequency
                = MidiNoteInHertz(pureOut.voice.currentlyPlayingNote)
          /\ pureOut.voice.noteVelocity \in Velocities
          /\ pureOut.voice.adsr.parameters =
                [attack |-> pureOut.params.envAttack,
                 decay |-> pureOut.params.envDecay,
                 sustain |-> SustainLevel(pureOut.params.envSustain),
                 release |-> pureOut.params.envRelease]
          /\ pureOut.voice.adsr.state = "attack"
          /\ LET series == compute(pureOut.params.oscRatio, pureOut.params.sawPhase,
                                   pureOut.params.sqrPhase,
                                   pureOut.voice.noteFrequency,
                                   pureOut.voice.currentSampleRate)
             IN  pureOut.voice.harmonicData =
                    apply(series, pureOut.params.filterCutoff,
                          pureOut.params.filterBoost, pureOut.params.filterPhase,
                          pureOut.params.filterStretch,
                          pureOut.voice.noteFrequency,
                          pureOut.voice.currentSampleRate)
    /\ pureOut.op \in {"stopNoteTail", "stopNoteNow", "prepareToPlay",
                       "renderIdle", "renderHead"} =>
          pureOut.phase = pureOut.before.phase
    /\ pureOut.op \notin {"construct", "startNote"} =>
          /\ pureOut.voice.noteFrequency = pureOut.before.noteFrequency
          /\ pureOut.voice.noteVelocity = pureOut.before.noteVelocity

\* a voice whose accumulator had advanced, and kept its phase through the
\* end of its note, has been started on a second note
C26_Witness ==
    /\ pureOut.op = "startNote"
    /\ pureOut.notes = 2
    /\ pureOut.before.phase > 0
    /\ pureOut.before.noteFrequency # pureOut.voice.noteFrequency
    /\ pureOut.phase = 0
    /\ pureOut.voice.adsr.state = "attack"

\* ------------------------------------------------------------------------
\* What the render path asks of the system: locks and memory
\* ------------------------------------------------------------------------

\* block sizes the host prepares the plugin for
PreparedBlockSizes == {64, 256, 512}

\* output channels of the layouts isBusesLayoutSupported accepts
OutputChannels == {1, 2}

MaxRtBlocks == 2

\* the plugin after construction: no buffer sized, nobody in a lock.
\* keyboardLock and synthLock are the critical sections of the
\* MidiKeyboardState and of the Synthesiser, held by "gui", "audio" or
\* "none"; vizAllocated is the number of floats vizBuffer owns; locked,
\* waited and allocated tell what the current block has done so far.
NewRt ==
    [stage |-> "rt", pc |-> "unprepared", gui |-> "idle",
     keyboardLock |-> "none", synthLock |-> "none",
     samplesPerBlock |-> 0, vizAllocated |-> 0,
     numChannels |-> 0, numSamples |-> 0,
     locked |-> FALSE, waited |-> FALSE, allocated |-> FALSE, blocks |-> 0]

InitRt ==
    /\ pureIn \in [samplesPerBlock : PreparedBlockSizes, numChannels : OutputChannels]
    /\ pureOut = NewRt
    /\ budget = [paramChanges |-> 0, noteOns |-> 0, prepares |-> 0, loads |-> 0]
    /\ InitPlugin

\* AdditiveSynthesizerAudioProcessor::prepareToPlay: vizBuffer.setSize(2,
\* samplesPerBlock) allocates what two channels of a full block need
RtPrepareToPlay ==
    /\ pureOut.pc = "unprepared"
    /\ pureOut' = [pureOut EXCEPT !.pc = "idle",
                                  !.samplesPerBlock = pureIn.samplesPerBlock,
                                  !.vizAllocated = 2 * pureIn.samplesPerBlock]
    /\ UNCHANGED << pureIn, pluginVars >>

\* the user presses a key of the editor's on-screen keyboard: the message
\* thread enters MidiKeyboardState::noteOn, which holds the state's lock
RtKeyDown ==
    /\ pureOut.pc # "unprepared"
    /\ pureOut.gui = "idle"
    /\ pureOut.keyboardLock = "none"
    /\ pureOut' = [pureOut EXCEPT !.gui = "noteOn", !.keyboardLock = "gui"]
    /\ UNCHANGED << pureIn, pluginVars >>

\* MidiKeyboardState::noteOn returns
RtKeyDownDone ==
    /\ pureOut.gui = "noteOn"
    /\ pureOut' = [pureOut EXCEPT !.gui = "idle", !.keyboardLock = "none"]
    /\ UNCHANGED << pureIn, pluginVars >>

\* processBlock is entered with a block no longer than the prepared size
RtBlockBegin ==
    /\ pureOut.pc = "idle"
    /\ pureOut.blocks < MaxRtBlocks
    /\ \E numSamples \in {1, pureOut.samplesPerBlock \div 2, pureOut.samplesPerBlock} :
         pureOut' = [pureOut EXCEPT !.pc = "keyboard", !.numSamples = numSamples,
                                    !.numChannels = pureIn.numChannels,
                                    !.locked = FALSE, !.waited = FALSE,
                                    !.allocated = FALSE, !.blocks = @ + 1]
    /\ UNCHANGED << pureIn, pluginVars >>

\* keyboardState.processNextMidiBuffer: it enters the state's lock, and
\* waits while the message thread is inside it
RtKeyboardMerge ==
    /\ pureOut.pc = "keyboard"
    /\ pureOut' = IF pureOut.keyboardLock = "none"
                  THEN [pureOut EXCEPT !.pc = "synth", !.locked = TRUE]
                  ELSE [pureOut EXCEPT !.waited = TRUE]
    /\ UNCHANGED << pureIn, pluginVars >>

\* updateSynthParameters and synthEngine.processBlock:
\* Synthesiser::renderNextBlock holds the synthesiser's lock while the
\* voices render into their fixed-size arrays
RtRender ==
    /\ pureOut.pc = "synth"
    /\ pureOut.synthLock = "none"
    /\ pureOut' = [pureOut EXCEPT !.pc = "viz", !.locked = TRUE]
    /\ UNCHANGED << pureIn, pluginVars >>

\* vizBuffer.setSize(channels, numSamples, false, false, true) and the
\* copy: with avoidReallocating the buffer allocates only when it owns
\* less than it is asked for
RtVizCopy ==
    /\ pureOut.pc = "viz"
    /\ LET needed == pureOut.numChannels * pureOut.numSamples
       IN  pureOut' = [pureOut EXCEPT
                         !.pc = "idle",
                         !.allocated = needed > pureOut.vizAllocated,
                         !.vizAllocated = Max(@, needed)]
    /\ UNCHANGED << pureIn, pluginVars >>

NextRt ==
    \/ RtPrepareToPlay
    \/ RtKeyDown
    \/ RtKeyDownDone
    \/ RtBlockBegin
    \/ RtKeyboardMerge
    \/ RtRender
    \/ RtVizCopy

SpecRt == InitRt /\ [][NextRt]_vars

\* C24: in a block no longer than the prepared block size the render path
\* waits for nothing, takes no lock and allocates nothing.
C24_NoLockNoWaitNoAllocation ==
    pureOut.stage = "rt" =>
        /\ ~pureOut.locked
        /\ ~pureOut.waited
        /\ ~pureOut.allocated

\* ------------------------------------------------------------------------
\* The visualization buffer between the audio thread and the waveform display
\* ------------------------------------------------------------------------

\* samplesPerBlock the plugin is prepared with
VizBlockSize == 4

MaxVizBlocks == 3

\* widths of the waveform display, in pixels
VizWidths == {2, 4}

\* vizBuffer after construction (empty) beside an idle display. data[i] is
\* the number of the block whose sample lies at index i of channel 0 (0:
\* cleared); copied is how far the running copyFrom has got; paint is the
\* display's paint call: the size it read, the pixel it is at, the block
\* numbers it has drawn, and what it met on the way.
NewViz ==
    [stage |-> "viz", pc |-> "unprepared", numSamples |-> 0,
     data |-> [i \in 0..(VizBlockSize - 1) |-> 0],
     block |-> 0, copied |-> 0,
     paint |-> [pc |-> "idle", numSamples |-> 0, px |-> 0, drawn |-> {},
                beyondSize |-> FALSE, duringCopy |-> FALSE, shown |-> "nothing"]]

InitViz ==
    /\ pureIn \in [width : VizWidths]
    /\ pureOut = NewViz
    /\ budget = [paramChanges |-> 0, noteOns |-> 0, prepares |-> 0, loads |-> 0]
    /\ InitPlugin

\* prepareToPlay: vizBuffer.setSize(2, samplesPerBlock); vizBuffer.clear()
VizPrepareToPlay ==
    /\ pureOut.pc = "unprepared"
    /\ pureOut.paint.pc = "idle"
    /\ pureOut' = [pureOut EXCEPT !.pc = "idle", !.numSamples = VizBlockSize,
                                  !.data = [i \in 0..(VizBlockSize - 1) |-> 0]]
    /\ UNCHANGED << pureIn, pluginVars >>

\* processBlock after rendering: vizBuffer.setSize(channels, numSamples,
\* false, false, true) sets the size, the storage stays
VizSetSize ==
    /\ pureOut.pc = "idle"
    /\ pureOut.block < MaxVizBlocks
    /\ \E numSamples \in {VizBlockSize \div 2, VizBlockSize} :
         pureOut' = [pureOut EXCEPT !.pc = "copy", !.numSamples = numSamples,
                                    !.block = @ + 1, !.copied = 0]
    /\ UNCHANGED << pureIn, pluginVars >>

\* vizBuffer.copyFrom(0, 0, buffer, 0, 0, numSamples), one sample further
VizCopyFrom ==
    /\ pureOut.pc = "copy"
    /\ pureOut' = [pureOut EXCEPT
                     !.data[pureOut.copied] = pureOut.block,
                     !.copied = @ + 1,
                     !.pc = IF pureOut.copied + 1 = pureOut.numSamples
                            THEN "idle" ELSE "copy"]
    /\ UNCHANGED << pureIn, pluginVars >>

\* WaveformDisplay::paint up to its loop: an empty buffer shows
\* "No signal", else the read pointer and the sample count are taken
PaintBegin ==
    /\ pureOut.paint.pc = "idle"
    /\ pureOut' = [pureOut EXCEPT !.paint =
                     IF pureOut.numSamples = 0
                     THEN [NewViz.paint EXCEPT !.shown = "No signal"]
                     ELSE [NewViz.paint EXCEPT !.pc = "loop", !.shown = "waveform",
                                               !.numSamples = pureOut.numSamples]]
    /\ UNCHANGED << pureIn, pluginVars >>

\* one pixel of paint's loop: data[jmin(int(px * samplesPerPixel),
\* numSamples - 1)] is read through the pointer taken before the loop
PaintPixel ==
    /\ pureOut.paint.pc = "loop"
    /\ LET paint     == pureOut.paint
           sampleIdx == Min((paint.px * paint.numSamples) \div pureIn.width,
                            paint.numSamples - 1)
       IN  pureOut' = [pureOut EXCEPT !.paint =
                         [paint EXCEPT
                            !.drawn = @ \cup {pureOut.data[sampleIdx]},
                            !.beyondSize = @ \/ sampleIdx >= pureOut.numSamples,
                            !.duringCopy = @ \/ pureOut.pc = "copy",
                            !.px = @ + 1,
                            !.pc = IF paint.px + 1 = pureIn.width
                                   THEN "idle" ELSE "loop"]]
    /\ UNCHANGED << pureIn, pluginVars >>

NextViz ==
    \/ VizPrepareToPlay
    \/ VizSetSize
    \/ VizCopyFrom
    \/ PaintBegin
    \/ PaintPixel

SpecViz == InitViz /\ [][NextViz]_vars

\* C21: a paint running beside processBlock never reads the buffer while
\* it is being resized or copied into, draws the samples of one block
\* only, and reads no index at or beyond the buffer's current size.
C21_PaintSeesOneWholeBlock ==
    pureOut.stage = "viz" =>
        /\ ~pureOut.paint.duringCopy
        /\ ~pureOut.paint.beyondSize
        /\ Cardinality(pureOut.paint.drawn) <= 1

\* the parts of C21, each violated on its own
C21_NeverBeyondCurrentSize == pureOut.stage = "viz" => ~pureOut.paint.beyondSize

C21_NeverTwoBlocksInOnePaint ==
    pureOut.stage = "viz" => Cardinality(pureOut.paint.drawn) <= 1

\* ------------------------------------------------------------------------
\* The editor's timer beside the audio thread
\* ------------------------------------------------------------------------

InitEditor ==
    /\ pureIn = PureIdle
    /\ pureOut = [stage |-> "none", data |-> EmptyHarmonicData]
    /\ budget = [paramChanges |-> MaxParamChanges, noteOns |-> MaxNoteOns,
                 prepares |-> SpecPrepares, loads |-> 0]
    /\ apvts = WithAdsr(AdsrNoSustain)
    /\ InitEngine

\* AdditiveSynthesizerAudioProcessorEditor::timerCallback as far as the
\* harmonic data goes: the active voice's data when there is one, else a
\* preview.  shown is what the spectrum display is given.
TimerCallback ==
    /\ LET harmonicData == getActiveHarmonicData(voices)
       IN  trace' = [op |-> "timerCallback", wasActive |-> VoiceIds \ FreeVoices(voices),
                     startNote |-> {}, stopNoteNow |-> {}, stopNoteTail |-> {},
                     added |-> [i \in VoiceIds |-> 0],
                     shown |-> IF harmonicData.found THEN harmonicData
                               ELSE [found |-> FALSE, voice |-> 0,
                                     data |-> computePreviewHarmonics(voiceParams,
                                                                      currentSampleRate)]]
    /\ UNCHANGED << pureVars, apvts, engineVars, pc, remaining, budget, loadVars >>

NextEditor ==
    \/ PrepareToPlay
    \/ SetParameter
    \/ ProcessBlockBegin
    \/ NoteOn
    \/ NoteOff
    \/ AllNotesOff
    \/ RenderVoices
    \/ ProcessBlockEnd
    \/ TimerCallback

SpecEditor == InitEditor /\ [][NextEditor]_vars

\* C19: getActiveHarmonicData returns null exactly when no voice is active,
\* and otherwise the HarmonicData of the active voice of lowest index.
C19_FirstActiveVoiceShown ==
    trace.op = "timerCallback" =>
        LET active == {i \in VoiceIds : isVoiceActive(voices[i])}
        IN  /\ trace.shown.found <=> active # {}
            /\ trace.shown.found =>
                 /\ trace.shown.voice \in active
                 /\ \A i \in active : trace.shown.voice <= i
                 /\ trace.shown.data = voices[trace.shown.voice].harmonicData

\* the timer has run while the first voice of the pool was free and a later
\* one was playing
C19_Witness ==
    /\ trace.op = "timerCallback"
    /\ ~isVoiceActive(voices[1])
    /\ trace.shown.found
    /\ trace.shown.voice > 1

\* the editor's timer beside the audio thread and the file loader, with no
\* note played
InitPreview ==
    /\ pureIn = PureIdle
    /\ pureOut = [stage |-> "none", data |-> EmptyHarmonicData]
    /\ budget = [paramChanges |-> MaxParamChanges, noteOns |-> 0,
                 prepares |-> SpecPrepares, loads |-> 1]
    /\ InitPlugin

NextPreview ==
    \/ PrepareToPlay
    \/ SetParameter
    \/ ProcessBlockBegin
    \/ RenderVoices
    \/ ProcessBlockEnd
    \/ LoadFileFail
    \/ LoadFileBegin
    \/ AnalyzeMagnitudes
    \/ AnalyzeBands
    \/ AnalyzeNormalize
    \/ LoadFileEnd
    \/ TimerCallback

SpecPreview == InitPreview /\ [][NextPreview]_vars

\* C20: the preview is the HarmonicData a voice playing 440 Hz at the
\* engine's sample rate holds after rebuildHarmonics under the same
\* parameters, and the step that computes it changes no voice, no envelope
\* and nothing of the engine.
C20_PreviewEqualsVoiceAt440 ==
    [][(trace'.op = "timerCallback" /\ ~trace'.shown.found) =>
          /\ trace'.shown.data =
                 rebuildHarmonics([NewVoice EXCEPT
                                     !.noteFrequency = MidiNoteInHertz(69),
                                     !.currentSampleRate = currentSampleRate],
                                  voiceParams).harmonicData
          /\ engineVars' = engineVars]_vars

\* a preview has been shown for an engine prepared at 8000 Hz whose voice
\* parameters have the waveform filter of a loaded file mixed in
C20_Witness ==
    /\ trace.op = "timerCallback"
    /\ ~trace.shown.found
    /\ currentSampleRate = 8000
    /\ voiceParams.waveFilterEnabled
    /\ voiceParams.waveFilterMix > 0
    /\ trace.shown.data.activeCount > 0

\* ------------------------------------------------------------------------
\* A reader of an active voice's HarmonicData beside the per-block rebuild
\* ------------------------------------------------------------------------

MaxRebuildBlocks == 2

\* the note played and the parameters held while the reader looks on
RebuildInputs ==
    [noteFreqHz : {220, 440}, cutoff : Cutoffs, boostDb : Boosts,
     stretch : {100, 150, 200}, mix : Mixes]

\* the voice parameters of the inputs; the imported spectrum falls as 1/n
RebuildParams ==
    [DefaultVoiceParams EXCEPT
        !.oscRatio = 100, !.filterCutoff = pureIn.cutoff,
        !.filterBoost = pureIn.boostDb, !.filterStretch = pureIn.stretch,
        !.waveFilterEnabled = TRUE, !.waveFilterMix = pureIn.mix,
        !.waveFilterSpectrum = [n \in Harmonics |-> kOne \div n]]

NoRead == [taken |-> FALSE, during |-> "none", data |-> EmptyHarmonicData]

InitRebuild ==
    /\ pureIn \in RebuildInputs
    /\ pureOut = [stage |-> "rebuild", pc |-> "unstarted", voice |-> NewVoice,
                  whole |-> EmptyHarmonicData, read |-> NoRead, blocks |-> 0]
    /\ budget = [paramChanges |-> 0, noteOns |-> 0, prepares |-> 0, loads |-> 0]
    /\ InitPlugin

\* the note is started; whole is what a rebuild leaves when it has run
\* to its end
RebuildStartNote ==
    /\ pureOut.pc = "unstarted"
    /\ \E note \in Notes :
         /\ MidiNoteInHertz(note) = pureIn.noteFreqHz
         /\ LET voice == startNote(voicePrepareToPlay(NewVoice, 44100), note, 100,
                                   RebuildParams)
            IN  pureOut' = [pureOut EXCEPT !.pc = "idle", !.voice = voice,
                                           !.whole = voice.harmonicData]
    /\ UNCHANGED << pureIn, pluginVars >>

\* renderNextBlock's rebuildHarmonics begins: harmonicData = compute(...)
\* has copied some members of the struct and not yet the others
RebuildAssign ==
    /\ pureOut.pc = "idle"
    /\ pureOut.blocks < MaxRebuildBlocks
    /\ LET params == RebuildParams
           series == compute(params.oscRatio, params.sawPhase, params.sqrPhase,
                             pureOut.voice.noteFrequency, pureOut.voice.currentSampleRate)
           old    == pureOut.voice.harmonicData
       IN  \E first \in {"arrays", "activeCount"} :
             pureOut' = [pureOut EXCEPT
                           !.pc = "assigning",
                           !.voice.harmonicData =
                              IF first = "arrays"
                              THEN [series EXCEPT !.activeCount = old.activeCount]
                              ELSE [old EXCEPT !.activeCount = series.activeCount]]
    /\ UNCHANGED << pureIn, pluginVars >>

\* harmonicData = compute(...) is complete
RebuildAssigned ==
    /\ pureOut.pc = "assigning"
    /\ LET params == RebuildParams
       IN  pureOut' = [pureOut EXCEPT
                         !.pc = "computed",
                         !.voice.harmonicData =
                            compute(params.oscRatio, params.sawPhase, params.sqrPhase,
                                    pureOut.voice.noteFrequency,
                                    pureOut.voice.currentSampleRate)]
    /\ UNCHANGED << pureIn, pluginVars >>

\* SpectralFilter::apply on harmonicData in place, up to the end of its
\* loop: amplitudes and phases are filtered, activeCount is not yet set
RebuildApplyLoop ==
    /\ pureOut.pc = "computed"
    /\ LET params   == RebuildParams
           data     == pureOut.voice.harmonicData
           filtered == apply(data, params.filterCutoff, params.filterBoost,
                             params.filterPhase, params.filterStretch,
                             pureOut.voice.noteFrequency, pureOut.voice.currentSampleRate)
       IN  pureOut' = [pureOut EXCEPT
                         !.pc = "filtering",
                         !.voice.harmonicData =
                            [filtered EXCEPT !.activeCount = data.activeCount]]
    /\ UNCHANGED << pureIn, pluginVars >>

\* apply's last statement: data.activeCount = newActive
RebuildApplyCount ==
    /\ pureOut.pc = "filtering"
    /\ LET params == RebuildParams
           data   == pureOut.voice.harmonicData
       IN  pureOut' = [pureOut EXCEPT
                         !.pc = "filtered",
                         !.voice.harmonicData.activeCount =
                            applyNewActive(applyKept(data.activeCount,
                                                     params.filterStretch,
                                                     pureOut.voice.noteFrequency,
                                                     pureOut.voice.currentSampleRate))]
    /\ UNCHANGED << pureIn, pluginVars >>

\* the end of rebuildHarmonics: applyWaveformFilter in place when the
\* waveform filter is enabled and mixed in
RebuildWaveformFilter ==
    /\ pureOut.pc = "filtered"
    /\ LET params == RebuildParams
           data   == pureOut.voice.harmonicData
       IN  pureOut' = [pureOut EXCEPT
                         !.pc = "idle", !.blocks = @ + 1,
                         !.voice.harmonicData =
                            IF params.waveFilterEnabled /\ params.waveFilterMix > 0
                            THEN applyWaveformFilter(data, params.waveFilterSpectrum,
                                                     params.waveFilterMix)
                            ELSE data]
    /\ UNCHANGED << pureIn, pluginVars >>

\* the message thread reads, in one piece, the HarmonicData behind the
\* pointer getActiveHarmonicData gave it
ReaderRead ==
    /\ pureOut.pc # "unstarted"
    /\ pureOut' = [pureOut EXCEPT !.read = [taken |-> TRUE, during |-> pureOut.pc,
                                            data |-> pureOut.voice.harmonicData]]
    /\ UNCHANGED << pureIn, pluginVars >>

NextRebuild ==
    \/ RebuildStartNote
    \/ RebuildAssign
    \/ RebuildAssigned
    \/ RebuildApplyLoop
    \/ RebuildApplyCount
    \/ RebuildWaveformFilter
    \/ ReaderRead

SpecRebuild == InitRebuild /\ [][NextRebuild]_vars

\* C28: what a reader gets through the pointer is the HarmonicData a
\* rebuild leaves when it has run to its end, never a state in between,
\* and no amplitude beyond its activeCount is other than zero.
C28_ReaderSeesWholeRebuild ==
    (pureOut.stage = "rebuild" /\ pureOut.read.taken) =>
        /\ pureOut.read.data = pureOut.whole
        /\ \A n \in Harmonics :
              n > pureOut.read.data.activeCount => pureOut.read.data.amplitudes[n] = 0

\* the second part of C28 alone: the activeCount read fits the amplitudes
C28_ReaderCountFitsAmplitudes ==
    (pureOut.stage = "rebuild" /\ pureOut.read.taken) =>
        \A n \in Harmonics :
           n > pureOut.read.data.activeCount => pureOut.read.data.amplitudes[n] = 0

\* a rebuild that has run to its end leaves the same data every time
RebuildEndsWhole ==
    (pureOut.stage = "rebuild" /\ pureOut.pc = "idle") =>
        pureOut.voice.harmonicData = pureOut.whole

=============================================================================
